---- MODULE Spec2Model ----
(***************************************************************************)
(* Model of the C2 CPFR dashboard back end (kyle-bartlett/                 *)
(* analysis-dashboards, c2-cpfr): the dynamic column discovery and the     *)
(* sheet normalizer of lib/sheets.ts and the forecast route of             *)
(* app/api/forecast/route.ts with its discrepancy computation.             *)
(*                                                                         *)
(* Text is modelled as a sequence of one-character strings, so that        *)
(* trim(), toLowerCase(), the week regular expression and parseFloat() are *)
(* computed character by character as the JavaScript does.  Column         *)
(* indices are 0-based as in the source; sequences are 1-based, so cell i  *)
(* of a row is row[i + 1].                                                 *)
(***************************************************************************)
EXTENDS Integers, Sequences, FiniteSets, TLC

VARIABLES
    headerRow,      \* mapper: the argument of the last discoverColumns call
    discovered,     \* mapper: what that call returned
    mapperPc,       \* mapper: "idle" before the first call, then "returned"
    readInput,      \* reader: what the Sheets and Drive APIs answered the call
    readResult,     \* reader: what readCpfrSheet returned
    readPc,         \* reader: "idle" before the call, then "returned"
    env,            \* forecast: which settings process.env holds
    forecastPc,     \* forecast: where the GET handler stands
    ankerValues,    \* forecast: res.data.values of the read of Anker's sheet
    ankerResult,    \* forecast: what readCpfrSheet returned for Anker's sheet
    c2Values,       \* forecast: res.data.values of the read of C2's sheet
    c2Result,       \* forecast: what readCpfrSheet returned for C2's sheet
    response,       \* forecast: the body GET /api/forecast answers with
    patternLastIndex, \* module state: WEEK_PATTERN.lastIndex
    calls,          \* the discoverColumns calls made so far, oldest first
    seed,           \* module state: _seed of lib/fallbackData.ts
    ankerSheet,     \* the rows Anker's tab holds
    c2Sheet,        \* the rows C2's tab holds
    reqs,           \* concurrent GET /api/forecast requests: each one's locals
    logFile,        \* data/changelog.json: the entries stored, newest first
    posts,          \* concurrent POST /api/accept requests: each one's locals
    changesPc, \* changes: position of the GET /api/changes request
    changesParam, \* changes: the limit query parameter of the request
    changesResponse,\* changes: the body GET /api/changes answers with
    adds, \* log: the number of addChangeLogEntry calls completed
    logBefore, \* log: the stored log before the most recent call
    lastFull,\* log: the entry the most recent call returned
    sortKey, \* sort: the column the table is sorted by, or null
    sortDir, \* sort: the direction of the sort, or null
    sortTrace,\* sort: every click so far with the state it left
    updates, \* write: the updates writeCpfrValues is called with
    writePc, \* write: position of the writeCpfrValues call
    writeC, \* write: the loop variable c of the update being converted
    writeCol, \* write: the letters built so far for that update
    writeData,\* write: the ranges built so far
    distPc, \* weeks: position of the distributeWeeksSeeded call
    distArgs, \* weeks: its arguments total, weeks and opts
    distPlan, \* weeks: which values the generator will draw
    distI, \* weeks: the loop variable i
    distRemaining, \* weeks: the variable remaining
    distArr,\* weeks: the array arr
    accepting, \* dashboard: the state accepting
    confirmModal, \* dashboard: the state confirmModal, what its confirm button will accept, or null
    acceptCalls \* dashboard: every handleAccept call so far with what became of its POST

mapperVars == <<headerRow, discovered, mapperPc>>

readVars == <<readInput, readResult, readPc>>

forecastVars ==
    <<env, forecastPc, ankerValues, ankerResult, c2Values, c2Result, response>>

callVars == <<patternLastIndex, calls>>

sheetVars == <<ankerSheet, c2Sheet>>

concurrentVars == <<seed, reqs>>

acceptVars == <<logFile, posts>>

changesVars == <<changesPc, changesParam, changesResponse>>

logVars == <<adds, logBefore, lastFull>>

sortVars == <<sortKey, sortDir, sortTrace>>

writeVars == <<updates, writePc, writeC, writeCol, writeData>>

distVars == <<distPc, distArgs, distPlan, distI, distRemaining, distArr>>

dashVars == <<accepting, confirmModal, acceptCalls>>

laterVars == <<changesVars, logVars, sortVars, writeVars, distVars, dashVars>>

\* What the steps of GET /api/changes leave alone.
ChangesFrame ==
    UNCHANGED <<mapperVars, readVars, forecastVars, callVars, sheetVars,
                concurrentVars, acceptVars, logVars, sortVars, writeVars, distVars,
                dashVars>>

\* What the steps of the sequential addChangeLogEntry calls leave alone.
LogFrame ==
    UNCHANGED <<mapperVars, readVars, forecastVars, callVars, sheetVars,
                concurrentVars, changesVars, sortVars, writeVars, distVars, dashVars>>

\* What the steps of the header clicks leave alone.
SortFrame ==
    UNCHANGED <<mapperVars, readVars, forecastVars, callVars, sheetVars,
                concurrentVars, acceptVars, changesVars, logVars, writeVars, distVars,
                dashVars>>

\* What the steps of writeCpfrValues leave alone.
WriteFrame ==
    UNCHANGED <<mapperVars, readVars, forecastVars, callVars, sheetVars,
                concurrentVars, acceptVars, changesVars, logVars, sortVars, distVars,
                dashVars>>

\* What the steps of distributeWeeksSeeded leave alone.
DistFrame ==
    UNCHANGED <<mapperVars, readVars, forecastVars, callVars, sheetVars,
                concurrentVars, acceptVars, changesVars, logVars, sortVars, writeVars,
                dashVars>>

\* What the steps of the dashboard's accept controls leave alone.
DashFrame ==
    UNCHANGED <<mapperVars, readVars, forecastVars, callVars, sheetVars,
                concurrentVars, acceptVars, changesVars, logVars, sortVars, writeVars,
                distVars>>

extraVars == <<callVars, sheetVars, concurrentVars, acceptVars, laterVars>>

vars == <<mapperVars, readVars, forecastVars, extraVars>>

(***************************************************************************)
(* Text helpers (String.prototype.toLowerCase / trim)                      *)
(***************************************************************************)
UpperChars ==
    <<"A", "B", "C", "D", "E", "F", "G", "H", "I", "J", "K", "L", "M", "N", "O", "P", "Q", "R", "S", "T", "U", "V", "W", "X", "Y", "Z">>

LowerChars ==
    <<"a", "b", "c", "d", "e", "f", "g", "h", "i", "j", "k", "l", "m", "n", "o", "p", "q", "r", "s", "t", "u", "v", "w", "x", "y", "z">>

DigitChars ==
    <<"0", "1", "2", "3", "4", "5", "6", "7", "8", "9">>

\* White space String.prototype.trim() and the regex class \s remove, as far
\* as it can occur in the cell texts of the model.
WhiteSpace == {" ", "\t", "\n", "\r"}

\* Upper-case letter -> lower-case letter.
LowerOf ==
    [c \in {UpperChars[i] : i \in 1..Len(UpperChars)} |->
        LowerChars[CHOOSE i \in 1..Len(UpperChars) : UpperChars[i] = c]]

toLowerCaseChar(c) == IF c \in DOMAIN LowerOf THEN LowerOf[c] ELSE c

toLowerCase(s) == [i \in 1..Len(s) |-> toLowerCaseChar(s[i])]

RECURSIVE trimStart(_)
trimStart(s) ==
    IF Len(s) > 0 /\ s[1] \in WhiteSpace THEN trimStart(Tail(s)) ELSE s

RECURSIVE trimEnd(_)
trimEnd(s) ==
    IF Len(s) > 0 /\ s[Len(s)] \in WhiteSpace
    THEN trimEnd(SubSeq(s, 1, Len(s) - 1))
    ELSE s

trim(s) == trimEnd(trimStart(s))

DigitSet == {DigitChars[i] : i \in 1..Len(DigitChars)}

\* Digit character -> its value.
DigitValueOf ==
    [c \in DigitSet |-> (CHOOSE i \in 1..Len(DigitChars) : DigitChars[i] = c) - 1]

IsDigit(c) == c \in DigitSet

DigitValue(c) == DigitValueOf[c]

\* Number-to-string conversion of a template literal `${i}` for an integer i >= 0.
RECURSIVE numberToString(_)
numberToString(n) ==
    IF n < 10 THEN <<DigitChars[n + 1]>>
    ELSE numberToString(n \div 10) \o <<DigitChars[(n % 10) + 1]>>

(***************************************************************************)
(* lib/sheets.ts: dynamic column discovery                                 *)
(***************************************************************************)
\* Object.entries(KNOWN_HEADERS) in insertion order: field key, alias list.
KNOWN_HEADERS ==
    <<
      [key |-> "ANKER_SKU", aliases |-> <<
          <<"A", "n", "k", "e", "r", " ", "S", "K", "U">>,  \* 'Anker SKU'
          <<"A", "n", "k", "e", "r", "_", "S", "K", "U">>,  \* 'Anker_SKU'
          <<"S", "K", "U">>,  \* 'SKU'
          <<"A", "n", "k", "e", "r", " ", "M", "o", "d", "e", "l">>   \* 'Anker Model'
       >>],
      [key |-> "CUSTOMER", aliases |-> <<
          <<"C", "u", "s", "t", "o", "m", "e", "r">>,  \* 'Customer'
          <<"C", "u", "s", "t">>,  \* 'Cust'
          <<"A", "c", "c", "o", "u", "n", "t">>   \* 'Account'
       >>],
      [key |-> "PRICE", aliases |-> <<
          <<"P", "r", "i", "c", "e">>,  \* 'Price'
          <<"U", "n", "i", "t", " ", "P", "r", "i", "c", "e">>,  \* 'Unit Price'
          <<"S", "e", "l", "l", " ", "P", "r", "i", "c", "e">>,  \* 'Sell Price'
          <<"A", "S", "P">>   \* 'ASP'
       >>],
      [key |-> "PDT", aliases |-> <<
          <<"P", "D", "T">>,  \* 'PDT'
          <<"C", "a", "t", "e", "g", "o", "r", "y">>,  \* 'Category'
          <<"P", "r", "o", "d", "u", "c", "t", " ", "T", "y", "p", "e">>,  \* 'Product Type'
          <<"P", "r", "o", "d", "u", "c", "t", " ", "C", "a", "t", "e", "g", "o", "r", "y">>   \* 'Product Category'
       >>],
      [key |-> "SELLOUT_AVG", aliases |-> <<
          <<"S", "e", "l", "l", "o", "u", "t", " ", "a", "v", "g">>,  \* 'Sellout avg'
          <<"S", "e", "l", "l", "o", "u", "t", " ", "A", "v", "g">>,  \* 'Sellout Avg'
          <<"S", "e", "l", "l", "o", "u", "t", " ", "A", "v", "e", "r", "a", "g", "e">>,  \* 'Sellout Average'
          <<"A", "v", "g", " ", "S", "e", "l", "l", "o", "u", "t">>,  \* 'Avg Sellout'
          <<"W", "e", "e", "k", "l", "y", " ", "S", "e", "l", "l", "o", "u", "t">>   \* 'Weekly Sellout'
       >>],
      [key |-> "OH", aliases |-> <<
          <<"O", "H">>,  \* 'OH'
          <<"O", "n", " ", "H", "a", "n", "d">>,  \* 'On Hand'
          <<"O", "n", "-", "H", "a", "n", "d">>,  \* 'On-Hand'
          <<"I", "n", "v", "e", "n", "t", "o", "r", "y">>,  \* 'Inventory'
          <<"C", "u", "r", "r", "e", "n", "t", " ", "O", "H">>   \* 'Current OH'
       >>],
      [key |-> "WOS", aliases |-> <<
          <<"W", "O", "S">>,  \* 'WOS'
          <<"W", "e", "e", "k", "s", " ", "o", "f", " ", "S", "u", "p", "p", "l", "y">>,  \* 'Weeks of Supply'
          <<"W", "e", "e", "k", "s", " ", "S", "u", "p", "p", "l", "y">>,  \* 'Weeks Supply'
          <<"W", "o", "S">>   \* 'WoS'
       >>],
      [key |-> "TOTAL_OFC", aliases |-> <<
          <<"T", "o", "t", "a", "l", " ", "O", "F", "C">>,  \* 'Total OFC'
          <<"T", "o", "t", "a", "l", " ", "F", "o", "r", "e", "c", "a", "s", "t">>,  \* 'Total Forecast'
          <<"O", "F", "C", " ", "T", "o", "t", "a", "l">>,  \* 'OFC Total'
          <<"T", "o", "t", "a", "l">>   \* 'Total'
       >>],
      [key |-> "Q1", aliases |-> <<
          <<"Q", "1">>,  \* 'Q1'
          <<"Q", "1", " ", "T", "o", "t", "a", "l">>,  \* 'Q1 Total'
          <<"Q", "u", "a", "r", "t", "e", "r", " ", "1">>   \* 'Quarter 1'
       >>],
      [key |-> "Q2", aliases |-> <<
          <<"Q", "2">>,  \* 'Q2'
          <<"Q", "2", " ", "T", "o", "t", "a", "l">>,  \* 'Q2 Total'
          <<"Q", "u", "a", "r", "t", "e", "r", " ", "2">>   \* 'Quarter 2'
       >>],
      [key |-> "Q3", aliases |-> <<
          <<"Q", "3">>,  \* 'Q3'
          <<"Q", "3", " ", "T", "o", "t", "a", "l">>,  \* 'Q3 Total'
          <<"Q", "u", "a", "r", "t", "e", "r", " ", "3">>   \* 'Quarter 3'
       >>],
      [key |-> "Q4", aliases |-> <<
          <<"Q", "4">>,  \* 'Q4'
          <<"Q", "4", " ", "T", "o", "t", "a", "l">>,  \* 'Q4 Total'
          <<"Q", "u", "a", "r", "t", "e", "r", " ", "4">>   \* 'Quarter 4'
       >>]
    >>

\* WEEK_PATTERN.test(h) for /^(\d{6})$|^W\+\d+$/
WEEK_PATTERN(h) ==
    \/ /\ Len(h) = 6
       /\ \A i \in 1..6 : IsDigit(h[i])
    \/ /\ Len(h) >= 3
       /\ h[1] = "W"
       /\ h[2] = "+"
       /\ \A i \in 3..Len(h) : IsDigit(h[i])

\* Mutant of sameLowerCase: texts of one length are taken for equal.
sameLowerCase_lengthOnly(h, alias) == Len(h) = Len(alias)

\* h.toLowerCase() === alias.toLowerCase(): the two lower-cased texts are
\* compared character by character (lower-casing keeps the length of the
\* texts of the model, which have no character outside ASCII).
sameLowerCase(h, alias) ==
    /\ Len(h) = Len(alias)
    /\ \A i \in 1..Len(h) : toLowerCaseChar(h[i]) = toLowerCaseChar(alias[i])

\* rawHeaders.findIndex((h) => h.toLowerCase() === alias.toLowerCase()),
\* scanning from 0-based position i; -1 when nothing matches.
RECURSIVE findIndexFrom(_, _, _)
findIndexFrom(rawHeaders, alias, i) ==
    IF i >= Len(rawHeaders) THEN -1
    ELSE IF sameLowerCase(rawHeaders[i + 1], alias) THEN i
    ELSE findIndexFrom(rawHeaders, alias, i + 1)

findIndex(rawHeaders, alias) == findIndexFrom(rawHeaders, alias, 0)

\* Mutant of matchAliases: the loop does not break, so the last alias that is
\* found wins.
RECURSIVE matchAliases_noBreak(_, _, _)
matchAliases_noBreak(rawHeaders, aliases, k) ==
    IF k > Len(aliases) THEN -1
    ELSE LET later == matchAliases_noBreak(rawHeaders, aliases, k + 1)
         IN  IF later # -1 THEN later ELSE findIndex(rawHeaders, aliases[k])

\* The inner loop over one field's aliases, from alias k on: the index of
\* the first alias that is found (the loop breaks there), or -1.
RECURSIVE matchAliases(_, _, _)
matchAliases(rawHeaders, aliases, k) ==
    IF k > Len(aliases) THEN -1
    ELSE LET idx == findIndex(rawHeaders, aliases[k])
         IN  IF idx # -1 THEN idx
             ELSE matchAliases(rawHeaders, aliases, k + 1)

\* The warning pushed for a field none of whose aliases is found:
\* `Column "${key}" not found (looked for: ${aliases.join(', ')})`.
notFoundWarning(key, aliases) ==
    [text |-> "Column not found", column |-> key, lookedFor |-> aliases]

noWeeksWarning ==
    [text |-> "No weekly columns found (expected YYYYWW or W+N pattern headers)"]

\* The outer loop over the first n entries of KNOWN_HEADERS: columnMap and
\* the warnings pushed so far.
RECURSIVE matchKnownHeaders(_, _)
matchKnownHeaders(rawHeaders, n) ==
    IF n = 0 THEN [columnMap |-> <<>>, warnings |-> <<>>]
    ELSE LET before == matchKnownHeaders(rawHeaders, n - 1)
             entry  == KNOWN_HEADERS[n]
             idx    == matchAliases(rawHeaders, entry.aliases, 1)
         IN  IF idx # -1
             THEN [before EXCEPT !.columnMap = (entry.key :> idx) @@ @]
             ELSE [before EXCEPT !.warnings =
                       Append(@, notFoundWarning(entry.key, entry.aliases))]

\* The scan for weekly columns from 0-based position i on; weekKey is
\* assigned afterwards.
RECURSIVE findWeekColumns(_, _)
findWeekColumns(rawHeaders, i) ==
    IF i >= Len(rawHeaders) THEN <<>>
    ELSE (IF WEEK_PATTERN(rawHeaders[i + 1])
          THEN <<[index |-> i, label |-> rawHeaders[i + 1], weekKey |-> <<>>]>>
          ELSE <<>>)
         \o findWeekColumns(rawHeaders, i + 1)

\* weekColumns.sort((a, b) => a.index - b.index): a stable sort, here by
\* insertion of each element after the last one not greater than it.
RECURSIVE insertByIndex(_, _)
insertByIndex(sorted, wc) ==
    IF Len(sorted) = 0 THEN <<wc>>
    ELSE IF sorted[Len(sorted)].index <= wc.index THEN Append(sorted, wc)
    ELSE Append(insertByIndex(SubSeq(sorted, 1, Len(sorted) - 1), wc),
                sorted[Len(sorted)])

RECURSIVE sortByIndex(_)
sortByIndex(wcs) ==
    IF Len(wcs) = 0 THEN <<>>
    ELSE insertByIndex(sortByIndex(SubSeq(wcs, 1, Len(wcs) - 1)), wcs[Len(wcs)])

\* `W+${i}`
weekKeyOf(i) == <<"W", "+">> \o numberToString(i)

\* Mutant of assignWeekKeys: a header that already reads W+N keeps its label
\* as its key.
assignWeekKeys_keepLabel(wcs) ==
    [i \in 1..Len(wcs) |->
        [wcs[i] EXCEPT !.weekKey = IF wcs[i].label[1] = "W" THEN wcs[i].label
                                   ELSE weekKeyOf(i - 1)]]

\* weekColumns.forEach((wc, i) => { wc.weekKey = `W+${i}` })
assignWeekKeys(wcs) ==
    [i \in 1..Len(wcs) |-> [wcs[i] EXCEPT !.weekKey = weekKeyOf(i - 1)]]

\* Mutant of columnDiscovery: no warning for a header without weekly
\* columns.
columnDiscovery_noWeeksSilent(rawHeaders, known, weekColumns) ==
    [columnMap   |-> known.columnMap,
     weekColumns |-> weekColumns,
     rawHeaders  |-> rawHeaders,
     warnings    |-> known.warnings]

\* What discoverColumns returns, once the headers are trimmed, the known
\* headers matched and the week columns found, sorted and keyed.
columnDiscovery(rawHeaders, known, weekColumns) ==
    [columnMap   |-> known.columnMap,
     weekColumns |-> weekColumns,
     rawHeaders  |-> rawHeaders,
     warnings    |-> IF Len(weekColumns) = 0
                     THEN Append(known.warnings, noWeeksWarning)
                     ELSE known.warnings]

\* discoverColumns from the trimmed headers on.
discoverFromHeaders(rawHeaders) ==
    columnDiscovery(rawHeaders,
                    matchKnownHeaders(rawHeaders, Len(KNOWN_HEADERS)),
                    assignWeekKeys(sortByIndex(findWeekColumns(rawHeaders, 0))))

discoverColumns(row) ==
    discoverFromHeaders([i \in 1..Len(row) |-> trim(row[i])])

(***************************************************************************)
(* JavaScript numbers.  A finite number is m / 10^e in lowest terms of e   *)
(* (m has no trailing zero unless e = 0), so two finite numbers are equal  *)
(* exactly when their records are; NaN and the infinities are values of    *)
(* their own.  The decimal texts of the model are short, so no rounding    *)
(* to 53 bits occurs on them.                                              *)
(***************************************************************************)
NaN == [kind |-> "NaN"]

Infinity(sign) == [kind |-> "Infinity", sign |-> sign]

RECURSIVE Finite(_, _)
Finite(m, e) ==
    IF m = 0 THEN [kind |-> "finite", m |-> 0, e |-> 0]
    ELSE IF e > 0 /\ m % 10 = 0 THEN Finite(m \div 10, e - 1)
    ELSE [kind |-> "finite", m |-> m, e |-> e]

Zero == Finite(0, 0)

RECURSIVE Pow10(_)
Pow10(n) == IF n = 0 THEN 1 ELSE 10 * Pow10(n - 1)

\* a + b
numAdd(a, b) ==
    IF a.kind = "NaN" \/ b.kind = "NaN" THEN NaN
    ELSE IF a.kind = "Infinity" /\ b.kind = "Infinity"
         THEN IF a.sign = b.sign THEN a ELSE NaN
    ELSE IF a.kind = "Infinity" THEN a
    ELSE IF b.kind = "Infinity" THEN b
    ELSE LET e == IF a.e > b.e THEN a.e ELSE b.e
         IN  Finite(a.m * Pow10(e - a.e) + b.m * Pow10(e - b.e), e)

\* -a
numNeg(a) ==
    IF a.kind = "NaN" THEN NaN
    ELSE IF a.kind = "Infinity" THEN Infinity(0 - a.sign)
    ELSE Finite(0 - a.m, a.e)

\* a - b
numSub(a, b) == numAdd(a, numNeg(b))

\* a !== b on numbers (NaN differs from everything, itself included)
numStrictNotEqual(a, b) == a.kind = "NaN" \/ b.kind = "NaN" \/ a # b

\* n || 0 on a number: 0 and NaN are falsy
numOrZero(n) == IF n.kind = "NaN" \/ n = Zero THEN Zero ELSE n

\* Value of a run of decimal digits.
RECURSIVE digitsValue(_)
digitsValue(ds) ==
    IF Len(ds) = 0 THEN 0
    ELSE 10 * digitsValue(SubSeq(ds, 1, Len(ds) - 1)) + DigitValue(ds[Len(ds)])

\* Last position of the run of digits of s that starts at position from
\* (from - 1 when s has no digit there).
RECURSIVE digitRunEnd(_, _)
digitRunEnd(s, from) ==
    IF from <= Len(s) /\ IsDigit(s[from]) THEN digitRunEnd(s, from + 1)
    ELSE from - 1

InfinityText == <<"I", "n", "f", "i", "n", "i", "t", "y">>

\* The number a decimal literal denotes: sign, integer digits, fraction
\* digits and exponent; NaN when it has no digit before the exponent.
decimalValue(sign, intPart, fracPart, exponent) ==
    IF Len(intPart) = 0 /\ Len(fracPart) = 0 THEN NaN
    ELSE IF Len(fracPart) - exponent >= 0
         THEN Finite(sign * digitsValue(intPart \o fracPart),
                     Len(fracPart) - exponent)
    ELSE Finite(sign * digitsValue(intPart \o fracPart)
                * Pow10(exponent - Len(fracPart)), 0)

\* The exponent part read after the fraction, which ends at fracEnd: 0
\* when no e or E follows; expSign is the length of the exponent's sign.
exponentAt(s, fracEnd, expSign) ==
    IF fracEnd < Len(s) /\ s[fracEnd + 1] \in {"e", "E"}
    THEN (IF expSign = 1 /\ s[fracEnd + 2] = "-" THEN -1 ELSE 1)
         * digitsValue(SubSeq(s, fracEnd + 2 + expSign,
                              digitRunEnd(s, fracEnd + 2 + expSign)))
    ELSE 0

\* The literal whose integer digits end at intEnd and fraction at fracEnd.
decimalAt(s, signLen, intEnd, fracEnd) ==
    decimalValue(IF signLen = 1 /\ s[1] = "-" THEN -1 ELSE 1,
                 SubSeq(s, signLen + 1, intEnd),
                 IF fracEnd > intEnd THEN SubSeq(s, intEnd + 2, fracEnd) ELSE <<>>,
                 exponentAt(s, fracEnd,
                            IF /\ fracEnd + 1 < Len(s)
                               /\ s[fracEnd + 1] \in {"e", "E"}
                               /\ s[fracEnd + 2] \in {"+", "-"}
                            THEN 1 ELSE 0))

\* The literal after a sign of signLen characters and integer digits that
\* end at intEnd: a fraction follows when the next character is a dot.
decimalAfterInt(s, signLen, intEnd) ==
    decimalAt(s, signLen, intEnd,
              IF intEnd < Len(s) /\ s[intEnd + 1] = "."
              THEN digitRunEnd(s, intEnd + 2) ELSE intEnd)

\* The literal after a sign of signLen characters.
decimalAfterSign(s, signLen) ==
    IF /\ Len(s) >= signLen + Len(InfinityText)
       /\ SubSeq(s, signLen + 1, signLen + Len(InfinityText)) = InfinityText
    THEN Infinity(IF signLen = 1 /\ s[1] = "-" THEN -1 ELSE 1)
    ELSE decimalAfterInt(s, signLen, digitRunEnd(s, signLen + 1))

\* parseFloat(s) for a text without leading white space: the longest prefix
\* that is a StrDecimalLiteral ([+-] then Infinity, or digits [. digits]
\* or . digits, then an optional exponent), NaN when there is none.
parseFloat(s) ==
    decimalAfterSign(s, IF Len(s) > 0 /\ s[1] \in {"+", "-"} THEN 1 ELSE 0)

(***************************************************************************)
(* lib/sheets.ts: parseNumber, safeGet, readCpfrSheet                      *)
(***************************************************************************)
\* undefined, and a defined value, as safeGet and optional chaining give them
Undefined == [defined |-> FALSE]

Some(v) == [defined |-> TRUE, value |-> v]

\* val.toString().replace(/[$,\s]/g, '')
RECURSIVE stripCurrency(_)
stripCurrency(s) ==
    IF Len(s) = 0 THEN <<>>
    ELSE IF s[1] \in ({"$", ","} \cup WhiteSpace) THEN stripCurrency(Tail(s))
    ELSE <<s[1]>> \o stripCurrency(Tail(s))

\* Mutant of nanToZero: the isNaN test is left out.
nanToZero_keepNaN(n) == n

\* isNaN(n) ? 0 : n
nanToZero(n) == IF n.kind = "NaN" THEN Zero ELSE n

parseNumber(val) ==
    IF ~val.defined \/ Len(val.value) = 0 THEN Zero
    ELSE nanToZero(parseFloat(stripCurrency(val.value)))

\* Mutant of safeGet: an undefined index reads column 0.
safeGet_undefinedIsFirst(row, idx) ==
    LET i == IF idx.defined THEN idx.value ELSE 0
    IN  IF i < 0 \/ i >= Len(row) THEN Undefined ELSE Some(row[i + 1])

\* safeGet(row, idx) with idx a 0-based index or undefined
safeGet(row, idx) ==
    IF ~idx.defined \/ idx.value < 0 \/ idx.value >= Len(row) THEN Undefined
    ELSE Some(row[idx.value + 1])

\* columnMap.KEY: the mapped index, undefined for an unmapped field
columnOf(columnMap, key) ==
    IF key \in DOMAIN columnMap THEN Some(columnMap[key]) ELSE Undefined

\* Mutant of trimmedCell: the cell is not trimmed.
trimmedCell_noTrim(row, idx) == safeGet(row, idx)

\* safeGet(row, idx)?.trim()
trimmedCell(row, idx) ==
    IF safeGet(row, idx).defined THEN Some(trim(safeGet(row, idx).value))
    ELSE Undefined

\* s.includes(sub)
includes(s, sub) ==
    \E i \in 0..(Len(s) - Len(sub)) : SubSeq(s, i + 1, i + Len(sub)) = sub

UnknownText == <<"U", "n", "k", "n", "o", "w", "n">>

VoiceCommText == <<"v", "o", "i", "c", "e", "c", "o", "m", "m">>

\* Mutant of orUnknown: only a missing text is replaced, a blank one kept.
orUnknown_missingOnly(text) ==
    IF text.defined THEN text.value ELSE UnknownText

\* x?.trim() || 'Unknown'
orUnknown(text) ==
    IF text.defined /\ Len(text.value) > 0 THEN text.value ELSE UnknownText

\* weeks[weekKey] = value on an object whose own keys are listed in
\* insertion order: a new key goes last, a known key keeps its place.
RECURSIVE weeksSet(_, _, _)
weeksSet(weeks, key, value) ==
    IF Len(weeks) = 0 THEN <<[key |-> key, value |-> value]>>
    ELSE IF weeks[1].key = key
         THEN <<[key |-> key, value |-> value]>> \o Tail(weeks)
    ELSE <<weeks[1]>> \o weeksSet(Tail(weeks), key, value)

\* weeks[weekKey]: the stored number, undefined for a key the object lacks
weeksGet(weeks, key) ==
    IF \E i \in 1..Len(weeks) : weeks[i].key = key
    THEN Some(weeks[CHOOSE i \in 1..Len(weeks) : weeks[i].key = key].value)
    ELSE Undefined

\* Object.keys(weeks)
weeksKeys(weeks) == [i \in 1..Len(weeks) |-> weeks[i].key]

\* Mutant of buildWeeks: a week column beyond the end of the row is left
\* out of the map.
buildWeeks_skipMissing(row, weekColumns, n) ==
    LET present == SelectSeq(SubSeq(weekColumns, 1, n),
                             LAMBDA wc : wc.index < Len(row))
    IN  [i \in 1..Len(present) |->
            [key   |-> present[i].weekKey,
             value |-> parseNumber(safeGet(row, Some(present[i].index)))]]

\* Mutant of buildWeeks: the week columns are entered last to first.
buildWeeks_lastFirst(row, weekColumns, n) ==
    [i \in 1..n |->
        [key   |-> weekColumns[n + 1 - i].weekKey,
         value |-> parseNumber(safeGet(row, Some(weekColumns[n + 1 - i].index)))]]

\* The loop that builds one row's weekly forecast map, over the first n
\* week columns.
RECURSIVE buildWeeks(_, _, _)
buildWeeks(row, weekColumns, n) ==
    IF n = 0 THEN <<>>
    ELSE weeksSet(buildWeeks(row, weekColumns, n - 1),
                  weekColumns[n].weekKey,
                  parseNumber(safeGet(row, Some(weekColumns[n].index))))

\* The fields of a record that parseNumber fills from a known column.
NumericFields ==
    {"PRICE", "SELLOUT_AVG", "OH", "WOS", "TOTAL_OFC", "Q1", "Q2", "Q3", "Q4"}

\* What the loop body pushes for a row whose cells have been read: nothing
\* for a row without SKU or of a VoiceComm customer, else one record.
pushedRecords(sku, customer, category, numbers, weeks) ==
    IF ~sku.defined \/ Len(sku.value) = 0 THEN <<>>
    ELSE IF includes(toLowerCase(customer), VoiceCommText) THEN <<>>
    ELSE << [sku        |-> sku.value,
             customer   |-> customer,
             category   |-> category,
             price      |-> numbers["PRICE"],
             selloutAvg |-> numbers["SELLOUT_AVG"],
             oh         |-> numbers["OH"],
             wos        |-> numbers["WOS"],
             totalOfc   |-> numbers["TOTAL_OFC"],
             q1         |-> numbers["Q1"],
             q2         |-> numbers["Q2"],
             q3         |-> numbers["Q3"],
             q4         |-> numbers["Q4"],
             weeks      |-> weeks] >>

\* The body of the loop over the data rows for one row: the records it
\* pushes (none for a skipped row).
rowRecords(row, columnMap, weekColumns) ==
    pushedRecords(trimmedCell(row, columnOf(columnMap, "ANKER_SKU")),
                  orUnknown(trimmedCell(row, columnOf(columnMap, "CUSTOMER"))),
                  orUnknown(trimmedCell(row, columnOf(columnMap, "PDT"))),
                  [key \in NumericFields |->
                      parseNumber(safeGet(row, columnOf(columnMap, key)))],
                  buildWeeks(row, weekColumns, Len(weekColumns)))

\* The loop over the data rows: the records of the first n rows, in row order.
RECURSIVE normalizeRows(_, _, _, _)
normalizeRows(dataRows, columnMap, weekColumns, n) ==
    IF n = 0 THEN <<>>
    ELSE normalizeRows(dataRows, columnMap, weekColumns, n - 1)
         \o rowRecords(dataRows[n], columnMap, weekColumns)

\* Default arguments of readCpfrSheet: 0-based header row and first data row.
HeaderRowIndex == 4

DataStartRow == 5

\* What readCpfrSheet returns when it gives up.
Null == [ok |-> FALSE]

\* The object readCpfrSheet returns for the discovered columns and the rows
\* from the first data row on.
sheetRead(in, found, dataRows) ==
    [ok            |-> TRUE,
     data          |-> normalizeRows(dataRows, found.columnMap,
                                     found.weekColumns, Len(dataRows)),
     weekColumns   |-> [i \in 1..Len(found.weekColumns) |->
                           found.weekColumns[i].weekKey],
     weekLabels    |-> [i \in 1..Len(found.weekColumns) |->
                           found.weekColumns[i].label],
     lastModified  |-> IF in.modifiedTime.defined
                       THEN in.modifiedTime.value ELSE in.now,
     columnMapping |-> found.columnMap,
     warnings      |-> found.warnings]

\* A call of readCpfrSheet.  Its inputs are what the outside world answers:
\*   client       whether getSheetsClient() returns a client,
\*   throws       whether spreadsheets.values.get fails,
\*   values       res.data.values otherwise (the rows of the tab),
\*   modifiedTime the Drive file's modifiedTime, undefined when the Drive
\*                call fails or answers without one,
\*   now          new Date().toISOString() at the time of the call.
readCpfrSheet(in) ==
    IF ~in.client \/ in.throws THEN Null
    ELSE IF Len(in.values) <= HeaderRowIndex THEN Null
    ELSE sheetRead(in, discoverColumns(in.values[HeaderRowIndex + 1]),
                   SubSeq(in.values, DataStartRow + 1, Len(in.values)))

(***************************************************************************)
(* Mapper specification: discoverColumns called on header rows             *)
(***************************************************************************)
MaxCols == 3

\* Header cell texts the calls draw from.
HeaderCells ==
    { <<>>,
      <<"S", "K", "U">>,
      <<" ", "s", "k", "u", " ">>,
      <<"A", "n", "k", "e", "r", " ", "S", "K", "U">>,
      <<"C", "u", "s", "t">>,
      <<"2", "0", "2", "6", "0", "6">>,
      <<" ", "2", "0", "2", "7", "0", "1">>,
      <<"W", "+", "5">>,
      <<"w", "+", "5">>,
      <<"2", "0", "2", "6", "0", "6", "1">> }

RECURSIVE SeqsUpTo(_, _)
SeqsUpTo(S, n) ==
    IF n = 0 THEN {<<>>}
    ELSE LET shorter == SeqsUpTo(S, n - 1)
         IN  shorter \cup {Append(s, x) : s \in shorter, x \in S}

HeaderRows == SeqsUpTo(HeaderCells, MaxCols)

\* No call of discoverColumns made yet.
MapperIdle ==
    /\ headerRow = <<>>
    /\ discovered = [columnMap |-> <<>>, weekColumns |-> <<>>,
                     rawHeaders |-> <<>>, warnings |-> <<>>]
    /\ mapperPc = "idle"

\* No call of readCpfrSheet made yet.
ReadIdle ==
    /\ readInput = [client |-> FALSE, throws |-> FALSE, values |-> <<>>,
                    modifiedTime |-> Undefined, now |-> "now"]
    /\ readResult = Null
    /\ readPc = "idle"

\* No GET /api/forecast request made yet; the settings are those of a
\* deployment with everything configured.
ForecastIdle ==
    /\ forecastPc = "idle"
    /\ ankerValues = <<>>
    /\ ankerResult = Null
    /\ c2Values = <<>>
    /\ c2Result = Null
    /\ response = Null
    /\ env = [GOOGLE_SERVICE_ACCOUNT_EMAIL |-> TRUE, GOOGLE_PRIVATE_KEY |-> TRUE,
              ANKER_SHEET_ID |-> TRUE, C2_SHEET_ID |-> TRUE]

\* No repeated discoverColumns call made yet: a regular expression object
\* starts with lastIndex 0.
CallsIdle ==
    /\ patternLastIndex = 0
    /\ calls = <<>>

\* Empty tabs.
SheetsIdle ==
    /\ ankerSheet = <<>>
    /\ c2Sheet = <<>>

\* No concurrent GET request yet: _seed as the module initialises it.
ConcurrentIdle ==
    /\ seed = 42
    /\ reqs = <<>>

\* No POST /api/accept request yet and no change log file.
AcceptIdle ==
    /\ logFile = <<>>
    /\ posts = <<>>

\* No GET /api/changes request made yet.
ChangesIdle ==
    /\ changesPc = "idle"
    /\ changesParam = Undefined
    /\ changesResponse = Null

\* No sequential addChangeLogEntry call made yet.
LogIdle ==
    /\ adds = 0
    /\ logBefore = <<>>
    /\ lastFull = Null

\* The table as mounted: unsorted, no header clicked.
SortIdle ==
    /\ sortKey = Null
    /\ sortDir = Null
    /\ sortTrace = <<>>

\* No writeCpfrValues call made.
WriteIdle ==
    /\ updates = <<>>
    /\ writePc = "idle"
    /\ writeC = 0
    /\ writeCol = <<>>
    /\ writeData = <<>>

\* No distributeWeeksSeeded call made.
DistIdle ==
    /\ distPc = "idle"
    /\ distArgs = Null
    /\ distPlan = "any"
    /\ distI = 0
    /\ distRemaining = 0
    /\ distArr = <<>>

\* The dashboard as mounted: no modal, nothing accepted.
DashIdle ==
    /\ accepting = FALSE
    /\ confirmModal = Null
    /\ acceptCalls = <<>>

LaterIdle == ChangesIdle /\ LogIdle /\ SortIdle /\ WriteIdle /\ DistIdle /\ DashIdle

\* Every later group but sortVars is idle.
SortAlone == ChangesIdle /\ LogIdle /\ WriteIdle /\ DistIdle
        /\ DashIdle

\* Every later group but writeVars is idle.
WriteAlone == ChangesIdle /\ LogIdle /\ SortIdle /\ DistIdle
        /\ DashIdle

\* Every later group but distVars is idle.
DistAlone == ChangesIdle /\ LogIdle /\ SortIdle /\ WriteIdle
        /\ DashIdle

\* Every later group but dashVars is idle.
DashAlone == ChangesIdle /\ LogIdle /\ SortIdle /\ WriteIdle
        /\ DistIdle

ExtraIdle ==
    CallsIdle /\ SheetsIdle /\ ConcurrentIdle /\ AcceptIdle /\ LaterIdle

InitMapper == MapperIdle /\ ReadIdle /\ ForecastIdle /\ ExtraIdle

DiscoverCall ==
    \E row \in HeaderRows :
        /\ mapperPc = "idle"
        /\ headerRow' = row
        /\ discovered' = discoverColumns(row)
        /\ mapperPc' = "returned"
        /\ UNCHANGED <<readVars, forecastVars, extraVars>>

NextMapper == DiscoverCall

SpecMapper == InitMapper /\ [][NextMapper]_vars

(***************************************************************************)
(* Repeated calls specification: discoverColumns called several times in   *)
(* one process.  WEEK_PATTERN is one module-level RegExp object shared by  *)
(* all calls; the only state such an object carries is lastIndex.          *)
(***************************************************************************)
MaxCalls == 3

\* Mutant of WeekPatternFlags: the pattern literal carries the g flag.
WeekPatternFlags_global == {"g"}

\* The flags of the literal /^(\d{6})$|^W\+\d+$/: none.
WeekPatternFlags == {}

\* WEEK_PATTERN.test(h) on the shared object.  Without the g or y flag
\* test() neither reads nor writes lastIndex.  With one of them the match
\* starts at lastIndex: the anchored pattern can match only from 0, a match
\* leaves lastIndex at its end (the whole text), a failure resets it to 0.
regExpTest(lastIndex, h) ==
    IF WeekPatternFlags \cap {"g", "y"} = {}
    THEN [matched |-> WEEK_PATTERN(h), lastIndex |-> lastIndex]
    ELSE IF lastIndex = 0 /\ WEEK_PATTERN(h)
         THEN [matched |-> TRUE, lastIndex |-> Len(h)]
         ELSE [matched |-> FALSE, lastIndex |-> 0]

\* for (i = 0; i < rawHeaders.length; i++) if (WEEK_PATTERN.test(h)) push,
\* over the first n headers, threading the pattern object's lastIndex
\* through.
RECURSIVE scanWeekHeaders(_, _, _)
scanWeekHeaders(rawHeaders, n, lastIndex) ==
    IF n = 0 THEN [columns |-> <<>>, lastIndex |-> lastIndex]
    ELSE LET before == scanWeekHeaders(rawHeaders, n - 1, lastIndex)
             tested == regExpTest(before.lastIndex, rawHeaders[n])
         IN  [columns   |-> IF tested.matched
                            THEN Append(before.columns,
                                        [index   |-> n - 1,
                                         label   |-> rawHeaders[n],
                                         weekKey |-> <<>>])
                            ELSE before.columns,
              lastIndex |-> tested.lastIndex]

\* One call of discoverColumns in a process whose pattern object has the
\* given lastIndex: what it returns, the header row array as the call
\* leaves it (headerRow.map builds a new array, the argument is only
\* read), and the lastIndex it leaves.
discoverColumnsCall(row, lastIndex) ==
    LET rawHeaders == [i \in 1..Len(row) |-> trim(row[i])]
        scan       == scanWeekHeaders(rawHeaders, Len(rawHeaders), lastIndex)
    IN  [result    |-> columnDiscovery(
                           rawHeaders,
                           matchKnownHeaders(rawHeaders, Len(KNOWN_HEADERS)),
                           assignWeekKeys(sortByIndex(scan.columns))),
         headerRow |-> row,
         lastIndex |-> scan.lastIndex]

\* The header rows the repeated calls draw from.
CallRows ==
    { <<>>,
      <<<<"S", "K", "U">>>>,
      <<<<"2", "0", "2", "6", "0", "6">>>>,
      <<<<"S", "K", "U">>, <<"2", "0", "2", "6", "0", "6">>, <<"W", "+", "1">>>>,
      <<<<" ", "2", "0", "2", "7", "0", "1", " ">>, <<"C", "u", "s", "t", "o", "m", "e", "r">>>> }

InitCalls == MapperIdle /\ ReadIdle /\ ForecastIdle /\ ExtraIdle

RepeatedCall ==
    /\ Len(calls) < MaxCalls
    /\ \E row \in CallRows :
           LET out == discoverColumnsCall(row, patternLastIndex)
           IN  /\ calls' = Append(calls, [row      |-> row,
                                          rowAfter |-> out.headerRow,
                                          result   |-> out.result])
               /\ patternLastIndex' = out.lastIndex
    /\ UNCHANGED <<mapperVars, readVars, forecastVars,
                   sheetVars, concurrentVars, acceptVars, laterVars>>

NextCalls == RepeatedCall

SpecCalls == InitCalls /\ [][NextCalls]_vars

(***************************************************************************)
(* Reader specification: readCpfrSheet called on a sheet                   *)
(***************************************************************************)
MaxDataRows == 2

\* The sheets the calls read: a header row, the cell texts each column of a
\* data row draws from (a data row holds any number of leading cells: the
\* Sheets API drops trailing empty cells), and whether the Drive API answers
\* with a modifiedTime.
ReadProfiles ==
    {
      [header |-> <<<<"A", "n", "k", "e", "r", " ", "S", "K", "U">>, <<"C", "u", "s", "t", "o", "m", "e", "r">>, <<"2", "0", "2", "6", "0", "6">>>>,
       pools  |-> <<{<<" ">>, <<" ", "A", "1", " ">>},
                    {<<"A", "c", "m", "e">>, <<" ">>, <<" ", "V", "o", "i", "c", "e", "C", "o", "m", "m", " ", "I", "n", "c">>},
                    {<<"7">>}>>,
       drive  |-> TRUE],
      [header |-> <<<<"2", "0", "2", "6", "0", "6">>, <<" ", "s", "k", "u", " ">>, <<"W", "+", "1">>>>,
       pools  |-> <<{<<"$", "1", ",", "2", "5", "0", ".", "5", "0">>, <<>>},
                    {<<"B", "2">>, <<" ">>},
                    {<<"n", "/", "a">>}>>,
       drive  |-> FALSE],
      [header |-> <<<<"I", "t", "e", "m">>, <<"C", "u", "s", "t", "o", "m", "e", "r">>, <<"2", "0", "2", "6", "0", "6">>>>,
       pools  |-> <<{<<"A", "1">>, <<>>},
                    {<<"A", "c", "m", "e">>},
                    {<<"7">>}>>,
       drive  |-> TRUE],
      [header |-> <<<<"S", "K", "U">>, <<"P", "r", "i", "c", "e">>, <<"O", "H">>>>,
       pools  |-> <<{<<"A", "1">>},
                    {<<"$", "1", "2", ".", "5", "0">>, <<"-", ".", "5">>},
                    {<<"1", ",", "0", "0", "0">>, <<"1", "e", "2">>}>>,
       drive  |-> TRUE],
      [header |-> <<>>,
       pools  |-> <<{<<"A", "1">>}>>,
       drive  |-> TRUE]
    }

\* The rows of at most Len(pools) cells, cell i drawn from pools[i].
RECURSIVE RowsOver(_, _)
RowsOver(pools, n) ==
    IF n = 0 THEN {<<>>}
    ELSE LET shorter == RowsOver(pools, n - 1)
         IN  shorter \cup {Append(r, c) : r \in {x \in shorter : Len(x) = n - 1},
                                           c \in pools[n]}

\* The rows above the header row (titles, notes): empty here.
Preamble == [i \in 1..HeaderRowIndex |-> <<>>]

\* res.data.values of the sheets: the preamble, the header row and at most
\* MaxDataRows data rows.
GridsOf(profile) ==
    {Preamble \o <<profile.header>> \o rows :
        rows \in SeqsUpTo(RowsOver(profile.pools, Len(profile.pools)), MaxDataRows)}

InputsOf(profile) ==
    {[client |-> TRUE, throws |-> FALSE, values |-> grid,
      modifiedTime |-> IF profile.drive THEN Some("modifiedTime") ELSE Undefined,
      now |-> "now"] : grid \in GridsOf(profile)}

ReadInputs ==
    UNION {InputsOf(profile) : profile \in ReadProfiles}
    \cup
    \* no credentials; a failing Sheets call; a tab that ends above the header row
    {[client |-> c, throws |-> t, values |-> grid, modifiedTime |-> Undefined,
      now |-> "now"] :
        c \in BOOLEAN, t \in BOOLEAN, grid \in {<<>>, Preamble}}

InitRead == MapperIdle /\ ReadIdle /\ ForecastIdle /\ ExtraIdle

ReadCall ==
    \E in \in ReadInputs :
        /\ readPc = "idle"
        /\ readInput' = in
        /\ readResult' = readCpfrSheet(in)
        /\ readPc' = "returned"
        /\ UNCHANGED <<mapperVars, forecastVars, extraVars>>

NextRead == ReadCall

SpecRead == InitRead /\ [][NextRead]_vars

(***************************************************************************)
(* lib/fallbackData.ts: the hardcoded fallback response                    *)
(***************************************************************************)
WEEKS == 30

\* RAW_SKUS (without the descriptions)
RAW_SKUS ==
    <<
      [sku |-> <<"A", "1", "3", "6", "7", "H", "1", "1", "-", "1">>,
       cat |-> <<"E", "s", "s", "e", "n", "t", "i", "a", "l">>, cust |-> <<"C", "2", " ", "W", "i", "r", "e", "l", "e", "s", "s">>,
       price |-> Finite(899, 2), ofc |-> Finite(7361, 0), oh |-> Finite(1450, 0), selloutAvg |-> Finite(280, 0)],
      [sku |-> <<"A", "8", "1", "8", "9", "Q", "2", "1", "-", "1">>,
       cat |-> <<"E", "s", "s", "e", "n", "t", "i", "a", "l">>, cust |-> <<"C", "2", " ", "W", "i", "r", "e", "l", "e", "s", "s">>,
       price |-> Finite(1499, 2), ofc |-> Finite(2366, 0), oh |-> Finite(520, 0), selloutAvg |-> Finite(95, 0)],
      [sku |-> <<"A", "1", "F", "5", "F", "H", "2", "1", "-", "1">>,
       cat |-> <<"E", "s", "s", "e", "n", "t", "i", "a", "l">>, cust |-> <<"V", "o", "i", "c", "e", "C", "o", "m", "m">>,
       price |-> Finite(1599, 2), ofc |-> Finite(3500, 0), oh |-> Finite(680, 0), selloutAvg |-> Finite(130, 0)],
      [sku |-> <<"A", "8", "1", "F", "E", "H", "2", "1", "-", "1">>,
       cat |-> <<"E", "s", "s", "e", "n", "t", "i", "a", "l">>, cust |-> <<"C", "2", " ", "W", "i", "r", "e", "l", "e", "s", "s">>,
       price |-> Finite(999, 2), ofc |-> Finite(7052, 0), oh |-> Finite(1820, 0), selloutAvg |-> Finite(310, 0)],
      [sku |-> <<"A", "1", "F", "7", "F", "H", "2", "1", "-", "1">>,
       cat |-> <<"E", "s", "s", "e", "n", "t", "i", "a", "l">>, cust |-> <<"V", "o", "i", "c", "e", "C", "o", "m", "m">>,
       price |-> Finite(1999, 2), ofc |-> Finite(1512, 0), oh |-> Finite(240, 0), selloutAvg |-> Finite(55, 0)],
      [sku |-> <<"A", "8", "1", "H", "5", "H", "1", "1", "-", "1">>,
       cat |-> <<"E", "s", "s", "e", "n", "t", "i", "a", "l">>, cust |-> <<"C", "2", " ", "W", "i", "r", "e", "l", "e", "s", "s">>,
       price |-> Finite(799, 2), ofc |-> Finite(1488, 0), oh |-> Finite(380, 0), selloutAvg |-> Finite(72, 0)],
      [sku |-> <<"A", "8", "1", "H", "7", "H", "1", "1", "-", "1">>,
       cat |-> <<"W", "i", "r", "e", "l", "e", "s", "s">>, cust |-> <<"C", "2", " ", "W", "i", "r", "e", "l", "e", "s", "s">>,
       price |-> Finite(2799, 2), ofc |-> Finite(900, 0), oh |-> Finite(150, 0), selloutAvg |-> Finite(35, 0)],
      [sku |-> <<"A", "2", "3", "2", "6", "J", "2", "1", "-", "1">>,
       cat |-> <<"W", "i", "r", "e", "l", "e", "s", "s">>, cust |-> <<"V", "o", "i", "c", "e", "C", "o", "m", "m">>,
       price |-> Finite(3299, 2), ofc |-> Finite(1848, 0), oh |-> Finite(310, 0), selloutAvg |-> Finite(68, 0)],
      [sku |-> <<"A", "2", "7", "3", "8", "H", "J", "4", "J", "-", "2">>,
       cat |-> <<"W", "i", "r", "e", "l", "e", "s", "s">>, cust |-> <<"C", "2", " ", "W", "i", "r", "e", "l", "e", "s", "s">>,
       price |-> Finite(4679, 2), ofc |-> Finite(1000, 0), oh |-> Finite(180, 0), selloutAvg |-> Finite(40, 0)],
      [sku |-> <<"B", "3", "M", "A", "2", "1", "H", "1", "-", "1">>,
       cat |-> <<"W", "i", "r", "e", "l", "e", "s", "s">>, cust |-> <<"V", "o", "i", "c", "e", "C", "o", "m", "m">>,
       price |-> Finite(2999, 2), ofc |-> Finite(1008, 0), oh |-> Finite(200, 0), selloutAvg |-> Finite(42, 0)],
      [sku |-> <<"A", "1", "3", "3", "6", "0", "1", "1">>,
       cat |-> <<"B", "a", "t", "t", "e", "r", "y">>, cust |-> <<"V", "o", "i", "c", "e", "C", "o", "m", "m">>,
       price |-> Finite(1699, 2), ofc |-> Finite(200, 0), oh |-> Finite(85, 0), selloutAvg |-> Finite(12, 0)],
      [sku |-> <<"A", "1", "6", "1", "8", "H", "1", "1", "-", "1">>,
       cat |-> <<"B", "a", "t", "t", "e", "r", "y">>, cust |-> <<"C", "2", " ", "W", "i", "r", "e", "l", "e", "s", "s">>,
       price |-> Finite(4599, 2), ofc |-> Finite(4320, 0), oh |-> Finite(760, 0), selloutAvg |-> Finite(165, 0)],
      [sku |-> <<"A", "1", "6", "5", "4", "H", "1", "1", "-", "1">>,
       cat |-> <<"B", "a", "t", "t", "e", "r", "y">>, cust |-> <<"C", "2", " ", "W", "i", "r", "e", "l", "e", "s", "s">>,
       price |-> Finite(2599, 2), ofc |-> Finite(1728, 0), oh |-> Finite(350, 0), selloutAvg |-> Finite(70, 0)],
      [sku |-> <<"A", "1", "6", "5", "3", "H", "1", "1", "-", "1">>,
       cat |-> <<"B", "a", "t", "t", "e", "r", "y">>, cust |-> <<"V", "o", "i", "c", "e", "C", "o", "m", "m">>,
       price |-> Finite(3999, 2), ofc |-> Finite(9750, 0), oh |-> Finite(2100, 0), selloutAvg |-> Finite(380, 0)],
      [sku |-> <<"A", "2", "6", "9", "8", "J", "Z", "1", "-", "1">>,
       cat |-> <<"C", "h", "a", "r", "g", "e", "r">>, cust |-> <<"C", "2", " ", "W", "i", "r", "e", "l", "e", "s", "s">>,
       price |-> Finite(125, 2), ofc |-> Finite(80136, 0), oh |-> Finite(18500, 0), selloutAvg |-> Finite(3200, 0)]
    >>

\* [...new Set(texts)]: the distinct elements in order of first occurrence
RECURSIVE distinctInOrder(_)
distinctInOrder(xs) ==
    IF Len(xs) = 0 THEN <<>>
    ELSE LET before == distinctInOrder(SubSeq(xs, 1, Len(xs) - 1))
         IN  IF \E i \in 1..Len(before) : before[i] = xs[Len(xs)]
             THEN before ELSE Append(before, xs[Len(xs)])

\* data.reduce((s, r) => s + r.totalOfc, 0) over the first n records
RECURSIVE sumTotalOfc(_, _)
sumTotalOfc(data, n) ==
    IF n = 0 THEN Zero ELSE numAdd(sumTotalOfc(data, n - 1), data[n].totalOfc)

\* buildFallbackSkus(), as far as it is fixed by RAW_SKUS: the seeded
\* quarterly and weekly distributions (q1..q4, weeks) and wos are left out.
buildFallbackSkus ==
    [i \in 1..Len(RAW_SKUS) |->
        [sku        |-> RAW_SKUS[i].sku,
         customer   |-> RAW_SKUS[i].cust,
         category   |-> RAW_SKUS[i].cat,
         price      |-> RAW_SKUS[i].price,
         selloutAvg |-> RAW_SKUS[i].selloutAvg,
         oh         |-> RAW_SKUS[i].oh,
         totalOfc   |-> RAW_SKUS[i].ofc]]

getFallbackData ==
    LET data == buildFallbackSkus
    IN  [anker         |-> [lastModified |-> "2026-02-19T16:30:00.000Z",
                            data         |-> data],
         c2            |-> Null,
         discrepancies |-> <<>>,
         meta          |-> [totalSkus   |-> Len(data),
                            totalUnits  |-> sumTotalOfc(data, Len(data)),
                            categories  |-> distinctInOrder(
                                                [i \in 1..Len(data) |-> data[i].category]),
                            weekColumns |-> [i \in 1..WEEKS |-> weekKeyOf(i - 1)],
                            mode        |-> "single"]]

\* seededRandom(): _seed = (_seed * 16807) % 2147483647.  The product is
\* below 2^53, so the JavaScript number arithmetic is exact; here it is
\* computed without leaving 32 bits, by Schrage's decomposition of the
\* modulus 2147483647 = 16807 * 127773 + 2836.
nextSeed[s \in Nat] ==
    LET t == 16807 * (s % 127773) - 2836 * (s \div 127773)
    IN  IF t > 0 THEN t ELSE t + 2147483647

\* _seed after n calls of seededRandom()
RECURSIVE seedAfter(_, _)
seedAfter(s, n) == IF n = 0 THEN s ELSE seedAfter(nextSeed[s], n - 1)

\* The calls of seededRandom() made for one SKU: three by
\* distributeQuarters, WEEKS by distributeWeeksSeeded.
DrawsPerSku == 3 + WEEKS

\* Mutant of fallbackStartSeed: buildFallbackSkus does not reset _seed.
fallbackStartSeed_noReset(s) == s

\* `_seed = 42; // Reset seed for reproducibility`: the seed
\* buildFallbackSkus starts to draw from, whatever _seed was.
fallbackStartSeed(s) == 42

\* _seed before the draws of each of n SKUs, in the order of RAW_SKUS.map,
\* and after the last one (position n + 1).
RECURSIVE seedsOfSkus(_, _)
seedsOfSkus(start, n) ==
    IF n = 0 THEN <<start>>
    ELSE <<start>> \o seedsOfSkus(seedAfter(start, DrawsPerSku), n - 1)

\* The fallback response with each record's seeded part.  q1..q4 and weeks
\* of a record are functions of its ofc and of the draws made for it, and
\* those are fixed by the value of _seed before them: the record carries
\* that value (drawnFrom) in their place.
seededResponse(seeds) ==
    [getFallbackData EXCEPT !.anker.data =
        [i \in 1..Len(@) |->
            [sku        |-> @[i].sku,
             customer   |-> @[i].customer,
             category   |-> @[i].category,
             price      |-> @[i].price,
             selloutAvg |-> @[i].selloutAvg,
             oh         |-> @[i].oh,
             totalOfc   |-> @[i].totalOfc,
             drawnFrom  |-> seeds[i]]]]

seededRun(seeds) ==
    [response |-> seededResponse(seeds), seed |-> seeds[Len(RAW_SKUS) + 1]]

\* getFallbackData() called in a process whose _seed is s: the response,
\* and _seed as the call leaves it.
seededFallbackData(s) ==
    seededRun(seedsOfSkus(fallbackStartSeed(s), Len(RAW_SKUS)))

(***************************************************************************)
(* app/api/forecast/route.ts: GET /api/forecast                            *)
(***************************************************************************)
\* isSheetsConfigured(), isC2SheetConfigured()
isSheetsConfigured(e) == e.GOOGLE_SERVICE_ACCOUNT_EMAIL /\ e.GOOGLE_PRIVATE_KEY

isC2SheetConfigured(e) == e.C2_SHEET_ID

\* Mutant of c2MapGet: of several entries with one key the first is kept.
c2MapGet_firstWins(c2Data, sku) ==
    IF \E i \in 1..Len(c2Data) : c2Data[i].sku = sku
    THEN Some(c2Data[CHOOSE i \in 1..Len(c2Data) :
                        /\ c2Data[i].sku = sku
                        /\ \A j \in 1..(i - 1) : c2Data[j].sku # sku])
    ELSE Undefined

\* new Map(c2Result.data.map((d) => [d.sku, d])).get(sku): of several
\* entries with one key the Map keeps the last.
c2MapGet(c2Data, sku) ==
    LET hits == {i \in 1..Len(c2Data) : c2Data[i].sku = sku}
    IN  IF hits = {} THEN Undefined
        ELSE Some(c2Data[CHOOSE i \in hits : \A j \in hits : j <= i])

\* value || 0 for weeks[weekKey], which is a number or undefined
orZero(value) == IF value.defined THEN numOrZero(value.value) ELSE Zero

\* Mutant of weekDiscrepancy: the difference is taken the other way round.
weekDiscrepancy_diffReversed(ankerSku, weekKey, ankerVal, c2Val) ==
    IF numStrictNotEqual(ankerVal, c2Val)
    THEN << [sku      |-> ankerSku.sku,
             customer |-> ankerSku.customer,
             week     |-> weekKey,
             anker    |-> ankerVal,
             c2       |-> c2Val,
             diff     |-> numSub(ankerVal, c2Val)] >>
    ELSE <<>>

\* The body of the inner loop for one week: the discrepancy it pushes, if
\* any, for Anker's value and C2's value of that week.
weekDiscrepancy(ankerSku, weekKey, ankerVal, c2Val) ==
    IF numStrictNotEqual(ankerVal, c2Val)
    THEN << [sku      |-> ankerSku.sku,
             customer |-> ankerSku.customer,
             week     |-> weekKey,
             anker    |-> ankerVal,
             c2       |-> c2Val,
             diff     |-> numSub(c2Val, ankerVal)] >>
    ELSE <<>>

\* Mutant of compareWeek: a week C2's record does not have is passed over.
compareWeek_skipAbsent(ankerSku, c2Sku, weekKey) ==
    IF ~weeksGet(c2Sku.weeks, weekKey).defined THEN <<>>
    ELSE weekDiscrepancy(ankerSku, weekKey,
                         orZero(weeksGet(ankerSku.weeks, weekKey)),
                         orZero(weeksGet(c2Sku.weeks, weekKey)))

\* The inner loop's reads for one week: each side's value, or 0.
compareWeek(ankerSku, c2Sku, weekKey) ==
    weekDiscrepancy(ankerSku, weekKey,
                    orZero(weeksGet(ankerSku.weeks, weekKey)),
                    orZero(weeksGet(c2Sku.weeks, weekKey)))

\* The inner loop over the first n of Object.keys(ankerSku.weeks): the
\* discrepancies it pushes.
RECURSIVE weekDiscrepancies(_, _, _)
weekDiscrepancies(ankerSku, c2Sku, n) ==
    IF n = 0 THEN <<>>
    ELSE weekDiscrepancies(ankerSku, c2Sku, n - 1)
         \o compareWeek(ankerSku, c2Sku, weeksKeys(ankerSku.weeks)[n])

\* Mutant of skuDiscrepancies: a SKU C2 does not carry is compared against
\* a record without weeks instead of being passed over.
skuDiscrepancies_noContinue(ankerSku, c2Sku) ==
    weekDiscrepancies(ankerSku,
                      IF c2Sku.defined THEN c2Sku.value ELSE [weeks |-> <<>>],
                      Len(weeksKeys(ankerSku.weeks)))

\* The body of the outer loop for one record of Anker's: nothing when C2
\* has no record of that SKU.
skuDiscrepancies(ankerSku, c2Sku) ==
    IF ~c2Sku.defined THEN <<>>
    ELSE weekDiscrepancies(ankerSku, c2Sku.value, Len(weeksKeys(ankerSku.weeks)))

\* The outer loop over the first n records of ankerResult.data.
RECURSIVE findDiscrepancies(_, _, _)
findDiscrepancies(ankerData, c2Data, n) ==
    IF n = 0 THEN <<>>
    ELSE findDiscrepancies(ankerData, c2Data, n - 1)
         \o skuDiscrepancies(ankerData[n], c2MapGet(c2Data, ankerData[n].sku))

\* The single-source response built from Anker's sheet.
singleResponse(anker) ==
    [anker         |-> [lastModified |-> anker.lastModified, data |-> anker.data],
     c2            |-> Null,
     discrepancies |-> <<>>,
     meta          |-> [totalSkus   |-> Len(anker.data),
                        totalUnits  |-> sumTotalOfc(anker.data, Len(anker.data)),
                        categories  |-> distinctInOrder(
                                            [i \in 1..Len(anker.data) |->
                                                anker.data[i].category]),
                        weekColumns |-> [i \in 1..Len(anker.weekColumns) |->
                                            weekKeyOf(i - 1)],
                        mode        |-> "single"]]

\* Mutant of dualResponse: meta.mode is left as it was.
dualResponse_modeKept(single, anker, c2) ==
    [single EXCEPT
        !.c2            = [ok |-> TRUE, lastModified |-> c2.lastModified,
                           data |-> c2.data],
        !.discrepancies = findDiscrepancies(anker.data, c2.data, Len(anker.data))]

\* The response once C2's sheet has been read as well.
dualResponse(single, anker, c2) ==
    [single EXCEPT
        !.c2            = [ok |-> TRUE, lastModified |-> c2.lastModified,
                           data |-> c2.data],
        !.meta.mode     = "dual",
        !.discrepancies = findDiscrepancies(anker.data, c2.data, Len(anker.data))]

(***************************************************************************)
(* Forecast specification: one GET /api/forecast                            *)
(***************************************************************************)
MaxSkuRows == 2

Envs ==
    [GOOGLE_SERVICE_ACCOUNT_EMAIL : BOOLEAN, GOOGLE_PRIVATE_KEY : BOOLEAN,
     ANKER_SHEET_ID : BOOLEAN, C2_SHEET_ID : BOOLEAN]

\* Anker's sheet: two weekly columns.
AnkerProfiles ==
    { [header |-> <<<<"S", "K", "U">>, <<"C", "u", "s", "t", "o", "m", "e", "r">>, <<"2", "0", "2", "6", "0", "6">>, <<"2", "0", "2", "6", "0", "7">>>>,
       pools  |-> <<{<<"A", "1">>, <<"B", "2">>},
                    {<<"A", "c", "m", "e">>},
                    {<<"3">>},
                    {<<"0">>, <<"3">>}>>] }

\* C2's sheet: two weekly columns, or one.
C2Profiles ==
    { [header |-> <<<<"A", "n", "k", "e", "r", " ", "S", "K", "U">>, <<"C", "u", "s", "t", "o", "m", "e", "r">>, <<"2", "0", "2", "7", "0", "1">>, <<"2", "0", "2", "7", "0", "2">>>>,
       pools  |-> <<{<<"A", "1">>, <<"B", "2">>},
                    {<<"C", "2", " ", "W", "i", "r", "e", "l", "e", "s", "s">>},
                    {<<"3">>, <<"2", ".", "5">>},
                    {<<"3">>}>>],
      [header |-> <<<<"A", "n", "k", "e", "r", " ", "S", "K", "U">>, <<"C", "u", "s", "t", "o", "m", "e", "r">>, <<"2", "0", "2", "7", "0", "1">>>>,
       pools  |-> <<{<<"A", "1">>, <<"B", "2">>},
                    {<<"C", "2", " ", "W", "i", "r", "e", "l", "e", "s", "s">>},
                    {<<"3">>, <<"2", ".", "5">>}>>] }

\* Anker's tab with nothing in the header row and data rows below it.
EmptyHeaderGrids ==
    {Preamble \o << <<>> >> \o rows :
        rows \in SeqsUpTo({<< <<"A", "1">>, <<"A", "c", "m", "e">>, <<"3">> >>},
                          MaxSkuRows) \ {<<>>}}

\* The rows with one cell from each pool.
RECURSIVE FullRows(_, _)
FullRows(pools, n) ==
    IF n = 0 THEN {<<>>}
    ELSE {Append(r, c) : r \in FullRows(pools, n - 1), c \in pools[n]}

ForecastGridsOf(profile) ==
    {Preamble \o <<profile.header>> \o rows :
        rows \in SeqsUpTo(FullRows(profile.pools, Len(profile.pools)), MaxSkuRows)}

\* Anker's tab with a data row whose last weekly cell is empty: the Sheets
\* API leaves trailing empty cells out of a row.
ShortRowGrids ==
    {Preamble \o <<profile.header>>
        \o << << <<"B", "2">>, <<"A", "c", "m", "e">>, <<"3">> >> >> :
        profile \in AnkerProfiles}

\* What Anker's tab and C2's tab may hold.
AnkerGrids ==
    UNION {ForecastGridsOf(profile) : profile \in AnkerProfiles}
    \cup EmptyHeaderGrids \cup ShortRowGrids

C2Grids == UNION {ForecastGridsOf(profile) : profile \in C2Profiles}

\* What the outside world answers a readCpfrSheet call of the handler: a
\* failing Sheets call, or one of the sheets (the Drive call answers).
ForecastInputs(grids, e) ==
    {[client |-> isSheetsConfigured(e), throws |-> TRUE, values |-> <<>>,
      modifiedTime |-> Undefined, now |-> "now"]}
    \cup
    {[client |-> isSheetsConfigured(e), throws |-> FALSE, values |-> grid,
      modifiedTime |-> Some("modifiedTime"), now |-> "now"] :
        grid \in grids}

\* No request made yet, under any settings.
InitForecast ==
    /\ MapperIdle
    /\ ReadIdle
    /\ ExtraIdle
    /\ env \in Envs
    /\ forecastPc = "idle"
    /\ ankerValues = <<>>
    /\ ankerResult = Null
    /\ c2Values = <<>>
    /\ c2Result = Null
    /\ response = Null

\* Lines 15-18: Sheets credentials missing.
GetNotConfigured ==
    /\ forecastPc = "idle"
    /\ ~isSheetsConfigured(env)
    /\ response' = getFallbackData
    /\ forecastPc' = "done"
    /\ UNCHANGED <<env, ankerValues, ankerResult, c2Values, c2Result>>

\* Lines 21-26: ANKER_SHEET_ID missing.
GetNoAnkerSheetId ==
    /\ forecastPc = "idle"
    /\ isSheetsConfigured(env)
    /\ ~env.ANKER_SHEET_ID
    /\ response' = getFallbackData
    /\ forecastPc' = "done"
    /\ UNCHANGED <<env, ankerValues, ankerResult, c2Values, c2Result>>

\* Line 28: the handler awaits readCpfrSheet for Anker's sheet.
GetReadAnker ==
    /\ forecastPc = "idle"
    /\ isSheetsConfigured(env)
    /\ env.ANKER_SHEET_ID
    /\ forecastPc' = "awaitAnker"
    /\ UNCHANGED <<env, ankerValues, ankerResult, c2Values, c2Result, response>>

\* What readCpfrSheet can return to the handler for a tab that holds one
\* of the given grids, with the rows the Sheets API answered (none when it
\* failed).
ReadAnswers(grids, e) ==
    {[values |-> in.values, result |-> readCpfrSheet(in)] :
        in \in ForecastInputs(grids, e)}

\* Lines 28-34: the read of Anker's sheet failed.
AnkerReadFailed ==
    /\ forecastPc = "awaitAnker"
    /\ \E answer \in ReadAnswers(AnkerGrids, env) :
          /\ ~answer.result.ok
          /\ ankerValues' = answer.values
          /\ ankerResult' = answer.result
          /\ response' = getFallbackData
          /\ forecastPc' = "done"
          /\ UNCHANGED <<env, c2Values, c2Result>>

\* Lines 28-54, 95: Anker's sheet read, no C2 sheet configured.
AnkerReadSingle ==
    /\ forecastPc = "awaitAnker"
    /\ \E answer \in ReadAnswers(AnkerGrids, env) :
          /\ answer.result.ok
          /\ ~isC2SheetConfigured(env)
          /\ ankerValues' = answer.values
          /\ ankerResult' = answer.result
          /\ response' = singleResponse(answer.result)
          /\ forecastPc' = "done"
          /\ UNCHANGED <<env, c2Values, c2Result>>

\* Lines 28-57: Anker's sheet read, the handler awaits the read of C2's.
AnkerReadDual ==
    /\ forecastPc = "awaitAnker"
    /\ \E answer \in ReadAnswers(AnkerGrids, env) :
          /\ answer.result.ok
          /\ isC2SheetConfigured(env)
          /\ ankerValues' = answer.values
          /\ ankerResult' = answer.result
          /\ response' = singleResponse(answer.result)
          /\ forecastPc' = "awaitC2"
          /\ UNCHANGED <<env, c2Values, c2Result>>

\* Mutant of C2ReadFailed: a failed read of C2's sheet answers the fallback.
C2ReadFailed_discards ==
    /\ forecastPc = "awaitC2"
    /\ \E answer \in ReadAnswers(C2Grids, env) :
          /\ ~answer.result.ok
          /\ c2Values' = answer.values
          /\ c2Result' = answer.result
          /\ response' = getFallbackData
          /\ forecastPc' = "done"
          /\ UNCHANGED <<env, ankerValues, ankerResult>>

\* Lines 57-59, 95: the read of C2's sheet failed; the single-source
\* response is answered.
C2ReadFailed ==
    /\ forecastPc = "awaitC2"
    /\ \E answer \in ReadAnswers(C2Grids, env) :
          /\ ~answer.result.ok
          /\ c2Values' = answer.values
          /\ c2Result' = answer.result
          /\ forecastPc' = "done"
          /\ UNCHANGED <<env, ankerValues, ankerResult, response>>

\* Lines 57-95: C2's sheet read, the discrepancies computed and answered.
C2ReadDone ==
    /\ forecastPc = "awaitC2"
    /\ \E answer \in ReadAnswers(C2Grids, env) :
          /\ answer.result.ok
          /\ c2Values' = answer.values
          /\ c2Result' = answer.result
          /\ response' = dualResponse(response, ankerResult, answer.result)
          /\ forecastPc' = "done"
          /\ UNCHANGED <<env, ankerValues, ankerResult>>

NextForecast ==
    \/ (GetNotConfigured /\ UNCHANGED <<mapperVars, readVars, extraVars>>)
    \/ (GetNoAnkerSheetId /\ UNCHANGED <<mapperVars, readVars, extraVars>>)
    \/ (GetReadAnker /\ UNCHANGED <<mapperVars, readVars, extraVars>>)
    \/ (AnkerReadFailed /\ UNCHANGED <<mapperVars, readVars, extraVars>>)
    \/ (AnkerReadSingle /\ UNCHANGED <<mapperVars, readVars, extraVars>>)
    \/ (AnkerReadDual /\ UNCHANGED <<mapperVars, readVars, extraVars>>)
    \/ (C2ReadFailed /\ UNCHANGED <<mapperVars, readVars, extraVars>>)
    \/ (C2ReadDone /\ UNCHANGED <<mapperVars, readVars, extraVars>>)

SpecForecast == InitForecast /\ [][NextForecast]_vars

(***************************************************************************)
(* Concurrent requests specification: several GET /api/forecast requests   *)
(* in one process.  A request runs to its next await without interruption; *)
(* the awaits are spreadsheets.values.get and drive.files.get of each      *)
(* readCpfrSheet call.  The tabs hold the same rows throughout.  The only  *)
(* module-level variable the requests write is _seed.                      *)
(***************************************************************************)
MaxRequests == 2

\* The settings of the process.
ConcurrentEnvs ==
    { e \in Envs : /\ e.GOOGLE_SERVICE_ACCOUNT_EMAIL
                   /\ e.GOOGLE_PRIVATE_KEY \/ (~e.ANKER_SHEET_ID /\ ~e.C2_SHEET_ID) }

\* What Anker's tab holds: two SKUs, or fewer rows than the header row.
ConcurrentAnkerSheets ==
    { Preamble
        \o << << <<"S", "K", "U">>, <<"C", "u", "s", "t", "o", "m", "e", "r">>, <<"2", "0", "2", "6", "0", "6">>, <<"2", "0", "2", "6", "0", "7">> >> >>
        \o << << <<"A", "1">>, <<"A", "c", "m", "e">>, <<"3">>, <<"0">> >>,
              << <<"B", "2">>, <<"A", "c", "m", "e">>, <<"3">>, <<"3">> >> >>,
      Preamble }

\* What C2's tab holds.
ConcurrentC2Sheets ==
    { Preamble
        \o << << <<"A", "n", "k", "e", "r", " ", "S", "K", "U">>, <<"C", "u", "s", "t", "o", "m", "e", "r">>, <<"2", "0", "2", "7", "0", "1">>, <<"2", "0", "2", "7", "0", "2">> >> >>
        \o << << <<"A", "1">>, <<"C", "2", " ", "W", "i", "r", "e", "l", "e", "s", "s">>, <<"2", ".", "5">>, <<"3">> >> >> }

\* What the Drive call of a read leaves as modifiedTime.
DriveAnswers == {Undefined, Some("modifiedTime")}

\* A request not started: its locals, and what the outside world answered
\* its calls (heard).  interleaved records that a step of the request was
\* taken while another request was between its first await and its answer.
NewRequest ==
    [pc          |-> "idle",
     values      |-> <<>>,
     ankerResult |-> Null,
     c2Result    |-> Null,
     response    |-> Null,
     heard       |-> [ankerThrows |-> FALSE, ankerTime |-> Undefined,
                      c2Throws    |-> FALSE, c2Time    |-> Undefined],
     interleaved |-> FALSE]

InitConcurrent ==
    /\ MapperIdle
    /\ ReadIdle
    /\ forecastPc = "idle"
    /\ ankerValues = <<>>
    /\ ankerResult = Null
    /\ c2Values = <<>>
    /\ c2Result = Null
    /\ response = Null
    /\ CallsIdle
    /\ AcceptIdle
    /\ LaterIdle
    /\ env \in ConcurrentEnvs
    /\ ankerSheet \in ConcurrentAnkerSheets
    /\ c2Sheet \in ConcurrentC2Sheets
    /\ seed = 42
    /\ reqs = [r \in 1..MaxRequests |-> NewRequest]

OthersInFlight(r) ==
    \E q \in DOMAIN reqs : q # r /\ reqs[q].pc \notin {"idle", "done"}

\* Request r after a step that leaves it at pc.
stepped(r, pc) ==
    [reqs[r] EXCEPT !.pc = pc, !.interleaved = @ \/ OthersInFlight(r)]

\* route.ts lines 15-18, 21-26: credentials or ANKER_SHEET_ID missing; the
\* fallback is built and answered.
ReqNotConfigured ==
    \E r \in DOMAIN reqs :
        /\ reqs[r].pc = "idle"
        /\ ~isSheetsConfigured(env) \/ ~env.ANKER_SHEET_ID
        /\ reqs' = [reqs EXCEPT ![r] =
                      [stepped(r, "done") EXCEPT
                          !.response = seededFallbackData(seed).response]]
        /\ seed' = seededFallbackData(seed).seed

\* route.ts line 28, sheets.ts lines 144-149: the request awaits the rows
\* of Anker's tab.
ReqReadAnker ==
    \E r \in DOMAIN reqs :
        /\ reqs[r].pc = "idle"
        /\ isSheetsConfigured(env)
        /\ env.ANKER_SHEET_ID
        /\ reqs' = [reqs EXCEPT ![r] = stepped(r, "ankerSheet")]
        /\ UNCHANGED seed

\* sheets.ts lines 149-157, 238-241, route.ts lines 30-34: the Sheets call
\* fails or answers fewer rows than the header row; the read returns null
\* and the fallback is built and answered.
ReqAnkerFailed ==
    \E r \in DOMAIN reqs : \E throws \in BOOLEAN :
        /\ reqs[r].pc = "ankerSheet"
        /\ throws \/ Len(ankerSheet) <= HeaderRowIndex
        /\ reqs' = [reqs EXCEPT ![r] =
                      [stepped(r, "done") EXCEPT
                          !.heard.ankerThrows = throws,
                          !.response = seededFallbackData(seed).response]]
        /\ seed' = seededFallbackData(seed).seed

\* sheets.ts lines 149-185: the rows of Anker's tab arrive; the request
\* awaits the Drive call.
ReqAnkerRows ==
    \E r \in DOMAIN reqs :
        /\ reqs[r].pc = "ankerSheet"
        /\ Len(ankerSheet) > HeaderRowIndex
        /\ reqs' = [reqs EXCEPT ![r] =
                      [stepped(r, "ankerDrive") EXCEPT !.values = ankerSheet]]
        /\ UNCHANGED seed

\* The request's read of a tab, once the Drive call has answered.
requestRead(values, time) ==
    readCpfrSheet([client |-> TRUE, throws |-> FALSE, values |-> values,
                   modifiedTime |-> time, now |-> "now"])

\* sheets.ts lines 185-237, route.ts lines 36-54, 95: Anker's sheet is
\* read; without a C2 sheet the single-source response is answered.
ReqAnkerSingle ==
    \E r \in DOMAIN reqs : \E time \in DriveAnswers :
        /\ reqs[r].pc = "ankerDrive"
        /\ ~isC2SheetConfigured(env)
        /\ reqs' = [reqs EXCEPT ![r] =
                      [stepped(r, "done") EXCEPT
                          !.heard.ankerTime = time,
                          !.ankerResult = requestRead(reqs[r].values, time),
                          !.response = singleResponse(
                                           requestRead(reqs[r].values, time))]]
        /\ UNCHANGED seed

\* sheets.ts lines 185-237, route.ts lines 36-57: Anker's sheet is read;
\* the request awaits the rows of C2's tab.
ReqAnkerDual ==
    \E r \in DOMAIN reqs : \E time \in DriveAnswers :
        /\ reqs[r].pc = "ankerDrive"
        /\ isC2SheetConfigured(env)
        /\ reqs' = [reqs EXCEPT ![r] =
                      [stepped(r, "c2Sheet") EXCEPT
                          !.heard.ankerTime = time,
                          !.ankerResult = requestRead(reqs[r].values, time),
                          !.response = singleResponse(
                                           requestRead(reqs[r].values, time))]]
        /\ UNCHANGED seed

\* route.ts lines 57-59, 95: the read of C2's sheet returns null; the
\* single-source response is answered.
ReqC2Failed ==
    \E r \in DOMAIN reqs : \E throws \in BOOLEAN :
        /\ reqs[r].pc = "c2Sheet"
        /\ throws \/ Len(c2Sheet) <= HeaderRowIndex
        /\ reqs' = [reqs EXCEPT ![r] =
                      [stepped(r, "done") EXCEPT !.heard.c2Throws = throws]]
        /\ UNCHANGED seed

\* sheets.ts lines 149-185: the rows of C2's tab arrive.
ReqC2Rows ==
    \E r \in DOMAIN reqs :
        /\ reqs[r].pc = "c2Sheet"
        /\ Len(c2Sheet) > HeaderRowIndex
        /\ reqs' = [reqs EXCEPT ![r] =
                      [stepped(r, "c2Drive") EXCEPT !.values = c2Sheet]]
        /\ UNCHANGED seed

\* route.ts lines 59-95: C2's sheet is read, the discrepancies are computed
\* and the dual-source response is answered.
ReqC2Done ==
    \E r \in DOMAIN reqs : \E time \in DriveAnswers :
        /\ reqs[r].pc = "c2Drive"
        /\ reqs' = [reqs EXCEPT ![r] =
                      [stepped(r, "done") EXCEPT
                          !.heard.c2Time = time,
                          !.c2Result = requestRead(reqs[r].values, time),
                          !.response = dualResponse(
                                           reqs[r].response,
                                           reqs[r].ankerResult,
                                           requestRead(reqs[r].values, time))]]
        /\ UNCHANGED seed

ConcurrentFrame ==
    UNCHANGED <<mapperVars, readVars, forecastVars, callVars, sheetVars,
                acceptVars, laterVars>>

NextConcurrent ==
    \/ (ReqNotConfigured /\ ConcurrentFrame)
    \/ (ReqReadAnker /\ ConcurrentFrame)
    \/ (ReqAnkerFailed /\ ConcurrentFrame)
    \/ (ReqAnkerRows /\ ConcurrentFrame)
    \/ (ReqAnkerSingle /\ ConcurrentFrame)
    \/ (ReqAnkerDual /\ ConcurrentFrame)
    \/ (ReqC2Failed /\ ConcurrentFrame)
    \/ (ReqC2Rows /\ ConcurrentFrame)
    \/ (ReqC2Done /\ ConcurrentFrame)

SpecConcurrent == InitConcurrent /\ [][NextConcurrent]_vars

(***************************************************************************)
(* lib/changeLog.ts and app/api/changes/route.ts: POST /api/accept         *)
(***************************************************************************)
MAX_ENTRIES == 200

\* `${actor} accepted all of ${otherSide}'s forecast numbers`,
\* `${actor} accepted ${otherSide}'s forecast for ${sku}${weekStr}` and
\* `${actor} accepted ${otherSide}'s forecast`: the parts the text is made
\* of (no request of the model names weeks).
acceptDetails(actor, otherSide, body) ==
    IF body.scope = "all"
    THEN [actor |-> actor, accepted |-> "all of", of |-> otherSide, for |-> ""]
    ELSE IF body.sku # ""
    THEN [actor |-> actor, accepted |-> "forecast", of |-> otherSide,
          for |-> body.sku]
    ELSE [actor |-> actor, accepted |-> "forecast", of |-> otherSide, for |-> ""]

\* Mutant of isValidBody: only direction is required.
isValidBody_directionOnly(body) == body.direction # ""

\* route.ts line 41: !body.direction || !body.scope rejects the body.
isValidBody(body) == body.direction # "" /\ body.scope # ""

\* route.ts lines 48-71: the entry POST hands to addChangeLogEntry.
acceptEntry(body) ==
    [actor   |-> IF body.direction = "anker_accepts_c2" THEN "Anker" ELSE "C2",
     action  |-> "accepted",
     details |-> acceptDetails(
                     IF body.direction = "anker_accepts_c2" THEN "Anker" ELSE "C2",
                     IF body.direction = "anker_accepts_c2" THEN "C2" ELSE "Anker",
                     body),
     skus    |-> IF body.sku # "" THEN <<body.sku>> ELSE <<>>]

\* changeLog.ts lines 39-43: the entry with its id and timestamp.  The id
\* is made of the clock and a random suffix; each call gets its own.
fullEntry(id, entry) ==
    [id        |-> id,
     timestamp |-> "now",
     actor     |-> entry.actor,
     action    |-> entry.action,
     details   |-> entry.details,
     skus      |-> entry.skus]

\* Mutant of prepended: the cap keeps the last MAX_ENTRIES entries.
prepended_keepsTail(full, entries) ==
    IF Len(entries) + 1 > MAX_ENTRIES
    THEN SubSeq(<<full>> \o entries, Len(entries) + 2 - MAX_ENTRIES,
                Len(entries) + 1)
    ELSE <<full>> \o entries

\* changeLog.ts lines 54-57: entries.unshift(full), then the cap.
prepended(full, entries) ==
    IF Len(entries) + 1 > MAX_ENTRIES
    THEN SubSeq(<<full>> \o entries, 1, MAX_ENTRIES)
    ELSE <<full>> \o entries

(***************************************************************************)
(* Accept specification: several POST /api/accept requests in one process, *)
(* their steps interleaved at the awaits of addChangeLogEntry (mkdir,      *)
(* readFile, writeFile).  The alert is sent without being awaited and      *)
(* touches neither the sheets nor the log.                                 *)
(***************************************************************************)
MaxPosts == 2

\* The request bodies: "" stands for a field that is missing.
AcceptBodies ==
    { [direction |-> "anker_accepts_c2", scope |-> "all", sku |-> ""],
      [direction |-> "c2_accepts_anker", scope |-> "all", sku |-> ""],
      [direction |-> "c2_accepts_anker", scope |-> "sku", sku |-> "A1"],
      [direction |-> "", scope |-> "all", sku |-> ""],
      [direction |-> "anker_accepts_c2", scope |-> "", sku |-> ""] }

\* An entry written before the requests of the model.
OldEntry ==
    fullEntry(0, [actor |-> "C2", action |-> "accepted",
                  details |-> [actor |-> "C2", accepted |-> "forecast",
                               of |-> "Anker", for |-> ""],
                  skus |-> <<>>])

NewPost ==
    [pc       |-> "idle",
     body     |-> [direction |-> "", scope |-> "", sku |-> ""],
     full     |-> Null,
     entries  |-> <<>>,
     alert    |-> "none",
     response |-> Null]

\* Both tabs with their records, the log file missing or with one entry.
InitAccept ==
    /\ MapperIdle
    /\ ReadIdle
    /\ ForecastIdle
    /\ CallsIdle
    /\ ConcurrentIdle
    /\ LaterIdle
    /\ ankerSheet \in {g \in ConcurrentAnkerSheets : Len(g) > HeaderRowIndex}
    /\ c2Sheet \in ConcurrentC2Sheets
    /\ logFile \in {<<>>, <<OldEntry>>}
    /\ posts = [p \in 1..MaxPosts |-> NewPost]

\* route.ts lines 38-46: direction or scope missing; 400 is answered.
PostInvalid ==
    \E p \in DOMAIN posts : \E body \in AcceptBodies :
        /\ posts[p].pc = "idle"
        /\ ~isValidBody(body)
        /\ posts' = [posts EXCEPT ![p] =
                       [@ EXCEPT !.pc = "done", !.body = body,
                                 !.response = [status |-> 400,
                                               error  |-> "Missing required fields: direction, scope"]]]
        /\ UNCHANGED <<logFile, sheetVars>>

\* route.ts lines 38-66, changeLog.ts line 37: the body is valid; the
\* handler calls addChangeLogEntry, which awaits ensureDir().
PostAccept ==
    \E p \in DOMAIN posts : \E body \in AcceptBodies :
        /\ posts[p].pc = "idle"
        /\ isValidBody(body)
        /\ posts' = [posts EXCEPT ![p] =
                       [@ EXCEPT !.pc = "ensureDir", !.body = body]]
        /\ UNCHANGED <<logFile, sheetVars>>

\* changeLog.ts lines 37-47: the directory is there; the entry is built
\* and the call awaits readFile.
PostMkdir ==
    \E p \in DOMAIN posts :
        /\ posts[p].pc = "ensureDir"
        /\ posts' = [posts EXCEPT ![p] =
                       [@ EXCEPT !.pc = "readFile",
                                 !.full = fullEntry(p, acceptEntry(posts[p].body))]]
        /\ UNCHANGED <<logFile, sheetVars>>

\* changeLog.ts lines 45-59: the file is read (no entries when it is
\* missing), the new entry is prepended and the call awaits writeFile.
PostRead ==
    \E p \in DOMAIN posts :
        /\ posts[p].pc = "readFile"
        /\ posts' = [posts EXCEPT ![p] =
                       [@ EXCEPT !.pc = "writeFile",
                                 !.entries = prepended(posts[p].full, logFile)]]
        /\ UNCHANGED <<logFile, sheetVars>>

\* alerts.ts lines 108-113, 11-21: what a sendAlert call of type email has
\* come to when it first yields: returned for want of a recipient
\* (req.to, ALERT_EMAIL_C2 and ALERT_EMAIL_ANKER all missing), returned
\* by sendEmail for want of RESEND_API_KEY, or waiting for Resend.
AlertStarts == {"no recipient", "not configured", "pending"}

\* alerts.ts lines 21-45: how the wait for Resend ends; a send error is
\* caught by sendEmail and sendAlert resolves with sent false.
AlertEnds == {"sent", "send error"}

\* changeLog.ts lines 59-60, route.ts lines 73-84: the whole file is
\* written with the call's entries; the alert is started and, without
\* waiting for it, success is answered.
PostWrite ==
    \E p \in DOMAIN posts : \E started \in AlertStarts :
        /\ posts[p].pc = "writeFile"
        /\ logFile' = posts[p].entries
        /\ posts' = [posts EXCEPT ![p] =
                       [@ EXCEPT !.pc = "done",
                                 !.alert = started,
                                 !.response = [status  |-> 200,
                                               success |-> TRUE,
                                               entry   |-> posts[p].full,
                                               message |-> posts[p].full.details]]]
        /\ UNCHANGED sheetVars

\* changeLog.ts line 59, route.ts lines 85-91: writeFile fails (a
\* read-only file system); 500 is answered.
PostWriteFailed ==
    \E p \in DOMAIN posts :
        /\ posts[p].pc = "writeFile"
        /\ posts' = [posts EXCEPT ![p] =
                       [@ EXCEPT !.pc = "done",
                                 !.response = [status |-> 500,
                                               error  |-> "Internal server error"]]]
        /\ UNCHANGED <<logFile, sheetVars>>

\* Mutant of AlertSettles: a failed send turns the answer into an error.
AlertSettles_failsRequest ==
    \E p \in DOMAIN posts : \E ended \in AlertEnds :
        /\ posts[p].alert = "pending"
        /\ posts' = [posts EXCEPT ![p] =
                       [@ EXCEPT !.alert = ended,
                                 !.response = IF ended = "sent" THEN @
                                              ELSE [status |-> 500,
                                                    error  |-> "Internal server error"]]]
        /\ UNCHANGED <<logFile, sheetVars>>

\* route.ts lines 74-78, alerts.ts lines 21-45, 112-113: the alert of a
\* request that has answered completes; its result is dropped.
AlertSettles ==
    \E p \in DOMAIN posts : \E ended \in AlertEnds :
        /\ posts[p].alert = "pending"
        /\ posts' = [posts EXCEPT ![p] = [@ EXCEPT !.alert = ended]]
        /\ UNCHANGED <<logFile, sheetVars>>

AcceptFrame ==
    UNCHANGED <<mapperVars, readVars, forecastVars, callVars, concurrentVars,
                laterVars>>

NextAccept ==
    \/ (PostInvalid /\ AcceptFrame)
    \/ (PostAccept /\ AcceptFrame)
    \/ (PostMkdir /\ AcceptFrame)
    \/ (PostRead /\ AcceptFrame)
    \/ (PostWrite /\ AcceptFrame)
    \/ (PostWriteFailed /\ AcceptFrame)
    \/ (AlertSettles /\ AcceptFrame)

SpecAccept == InitAccept /\ [][NextAccept]_vars

(***************************************************************************)
(* app/api/changes/route.ts: GET /api/changes, and getChangeLog            *)
(***************************************************************************)
\* The digits of parseInt's argument after a sign of signLen characters,
\* which end at position end: NaN when there is none.
intAfterSign(t, signLen, end) ==
    IF end <= signLen THEN NaN
    ELSE Finite((IF signLen = 1 /\ t[1] = "-" THEN -1 ELSE 1)
                * digitsValue(SubSeq(t, signLen + 1, end)), 0)

signLength(t) == IF Len(t) > 0 /\ t[1] \in {"+", "-"} THEN 1 ELSE 0

intOfTrimmed(t) ==
    intAfterSign(t, signLength(t), digitRunEnd(t, signLength(t) + 1))

\* parseInt(s, 10): leading white space is skipped, a sign and the longest
\* run of decimal digits are read and the rest is ignored.
parseInt(s) == intOfTrimmed(trimStart(s))

\* Math.min(a, b) on numbers that are NaN or integers.
mathMin(a, b) ==
    IF a.kind = "NaN" \/ b.kind = "NaN" THEN NaN
    ELSE IF a.m <= b.m THEN a ELSE b

\* The end position Array.prototype.slice(0, end) uses on an array of len
\* elements: NaN counts as 0, a negative end counts from the end of the
\* array, and the result stays within 0..len.
sliceEnd(len, end) ==
    IF end.kind = "NaN" THEN 0
    ELSE IF end.m < 0 THEN (IF len + end.m < 0 THEN 0 ELSE len + end.m)
    ELSE IF end.m > len THEN len ELSE end.m

\* Mutant of slice: a negative end counts as 0.
slice_negativeIsZero(entries, end) ==
    SubSeq(entries, 1, IF end.kind # "NaN" /\ end.m < 0 THEN 0
                       ELSE sliceEnd(Len(entries), end))

\* entries.slice(0, end)
slice(entries, end) == SubSeq(entries, 1, sliceEnd(Len(entries), end))

\* getChangeLog(limit): the first entries of the stored file (no entry
\* when the file is missing: readFile fails and [] is returned).
getChangeLog(file, limit) == slice(file, limit)

\* searchParams.get('limit') || '20': the default stands in for a missing
\* and for an empty parameter.
limitText(param) ==
    IF param.defined /\ Len(param.value) > 0 THEN param.value ELSE <<"2", "0">>

\* route.ts lines 12-20: the body GET /api/changes answers with.
changesBody(entries) == [entries |-> entries, total |-> Len(entries)]

getChanges(file, param) ==
    changesBody(getChangeLog(file, mathMin(parseInt(limitText(param)),
                                           Finite(100, 0))))

(***************************************************************************)
(* Changes specification: one GET /api/changes on a stored log             *)
(***************************************************************************)
\* A stored log of n entries, newest first: the entry at index i was
\* written as the (n + 1 - i)-th.
storedLog(n) == [i \in 1..n |-> [OldEntry EXCEPT !.id = n + 1 - i]]

\* The stored logs: every length up to the cap.
StoredLogs == {storedLog(n) : n \in 0..MAX_ENTRIES}

\* The limit query parameter: absent, empty, non-numeric, zero, negative,
\* in range, above 100, and texts parseInt reads a prefix of.
LimitParams ==
    {Undefined} \cup
    {Some(t) : t \in { <<>>, <<"a", "b", "c">>, <<"0">>, <<"-", "0">>,
                       <<"-", "1">>, <<"-", "5">>, <<"-", "1", "5", "0">>,
                       <<"-", "2", "0", "1">>, <<"5">>, <<"+", "3">>,
                       <<" ", "7">>, <<"5", "0", "a", "b", "c">>,
                       <<"1", "e", "3">>, <<"2", "0">>, <<"1", "0", "0">>,
                       <<"1", "0", "1">>, <<"2", "5", "0">> }}

InitChanges ==
    /\ MapperIdle
    /\ ReadIdle
    /\ ForecastIdle
    /\ CallsIdle
    /\ SheetsIdle
    /\ ConcurrentIdle
    /\ posts = <<>>
    /\ logFile \in StoredLogs
    /\ LaterIdle

ChangesGet ==
    \E param \in LimitParams :
        /\ changesPc = "idle"
        /\ changesParam' = param
        /\ changesResponse' = getChanges(logFile, param)
        /\ changesPc' = "done"
        /\ ChangesFrame

NextChanges == ChangesGet

SpecChanges == InitChanges /\ [][NextChanges]_vars

(***************************************************************************)
(* Log specification: addChangeLogEntry called several times, each call    *)
(* completing before the next starts                                       *)
(***************************************************************************)
MaxAdds == 2

\* The entries the calls are made with: those POST /api/accept builds.
AddedEntries ==
    {acceptEntry(body) : body \in {b \in AcceptBodies : b.direction # ""}}

InitLog ==
    /\ MapperIdle
    /\ ReadIdle
    /\ ForecastIdle
    /\ CallsIdle
    /\ SheetsIdle
    /\ ConcurrentIdle
    /\ posts = <<>>
    /\ logFile \in StoredLogs
    /\ LaterIdle

\* changeLog.ts lines 34-61: one whole call; the id of its entry differs
\* from every stored one.
AddCall ==
    \E entry \in AddedEntries :
        /\ adds < MaxAdds
        /\ adds' = adds + 1
        /\ logBefore' = logFile
        /\ lastFull' = fullEntry(MAX_ENTRIES + adds + 1, entry)
        /\ logFile' = prepended(fullEntry(MAX_ENTRIES + adds + 1, entry), logFile)
        /\ UNCHANGED posts
        /\ LogFrame

NextLog == AddCall

SpecLog == InitLog /\ [][NextLog]_vars

(***************************************************************************)
(* Sort specification: clicks on the sort buttons of the table header      *)
(***************************************************************************)
MaxClicks == 4

\* A state value that is not null.
NotNull(v) == [ok |-> TRUE, value |-> v]

\* route.ts lines 1413-1533: the columnKey of some header cells.
SortColumns == {"sku", "totalOfc", "W+0"}

\* Mutant of handleSort: the third click keeps the column.
handleSort_keepsKey(key, curKey, curDir) ==
    IF curKey # NotNull(key)
    THEN [sortKey |-> NotNull(key), sortDir |-> NotNull("asc")]
    ELSE IF curDir = NotNull("asc")
         THEN [sortKey |-> curKey, sortDir |-> NotNull("desc")]
         ELSE [sortKey |-> curKey, sortDir |-> Null]

\* route.ts lines 944-957: the state handleSort sets, from the state of the
\* render that made the callback.
handleSort(key, curKey, curDir) ==
    IF curKey # NotNull(key)
    THEN [sortKey |-> NotNull(key), sortDir |-> NotNull("asc")]
    ELSE IF curDir = NotNull("asc")
         THEN [sortKey |-> curKey, sortDir |-> NotNull("desc")]
         ELSE [sortKey |-> Null, sortDir |-> Null]

\* route.ts lines 717-718: useState(null) twice.
InitSort ==
    /\ MapperIdle
    /\ ReadIdle
    /\ ForecastIdle
    /\ CallsIdle
    /\ SheetsIdle
    /\ ConcurrentIdle
    /\ AcceptIdle
    /\ SortAlone
    /\ SortIdle

\* route.ts line 556: onClick={() => onSort(columnKey)}; the component has
\* rendered again before the next click.
SortClick ==
    \E key \in SortColumns :
        LET set == handleSort(key, sortKey, sortDir)
        IN  /\ Len(sortTrace) < MaxClicks
            /\ sortKey' = set.sortKey
            /\ sortDir' = set.sortDir
            /\ sortTrace' = Append(sortTrace,
                                   [clicked |-> key, sortKey |-> set.sortKey,
                                    sortDir |-> set.sortDir])
            /\ SortFrame

NextSort == SortClick

SpecSort == InitSort /\ [][NextSort]_vars

(***************************************************************************)
(* Write specification: one writeCpfrValues call, its conversion loop      *)
(* taken one iteration at a time                                           *)
(***************************************************************************)
MaxUpdates == 2
MaxColumn == 703

\* The column indices of the updates: around each change of length or of
\* leading letter.
ColumnIndices == (0..1) \cup (24..27) \cup (50..53) \cup (700..MaxColumn)

\* The row numbers of the updates.
RowNumbers == {2, 15}

\* The tab written to.
WriteTab == <<"C", "P", "F", "R">>

Updates ==
    [row : RowNumbers, col : ColumnIndices, value : {7}]

\* sheets.ts line 261: String.fromCharCode(65 + (c % 26)).
columnLetter(c) == UpperChars[(c % 26) + 1]

\* Mutant of nextColumn: the borrow taken before the division.
nextColumn_borrowFirst(c) == (c - 1) \div 26

\* sheets.ts line 262: Math.floor(c / 26) - 1.
nextColumn(c) == (c \div 26) - 1

\* sheets.ts line 265: the template `${tabName}!${col}${u.row}`.
rangeOf(tabName, col, row) ==
    tabName \o <<"!">> \o col \o numberToString(row)

InitWrite ==
    /\ MapperIdle
    /\ ReadIdle
    /\ ForecastIdle
    /\ CallsIdle
    /\ SheetsIdle
    /\ ConcurrentIdle
    /\ AcceptIdle
    /\ WriteAlone
    /\ updates \in UNION {[1..n -> Updates] : n \in 1..MaxUpdates}
    /\ writePc = "map"
    /\ writeC = 0
    /\ writeCol = <<>>
    /\ writeData = <<>>

\* sheets.ts lines 258-259: the callback of map starts on the next update.
WriteBegin ==
    /\ writePc = "map"
    /\ Len(writeData) < Len(updates)
    /\ writeCol' = <<>>
    /\ writeC' = updates[Len(writeData) + 1].col
    /\ writePc' = "loop"
    /\ UNCHANGED <<updates, writeData>>
    /\ WriteFrame

\* sheets.ts lines 260-263: one iteration of the loop.
WriteLoop ==
    /\ writePc = "loop"
    /\ writeC >= 0
    /\ writeCol' = <<columnLetter(writeC)>> \o writeCol
    /\ writeC' = nextColumn(writeC)
    /\ UNCHANGED <<updates, writePc, writeData>>
    /\ WriteFrame

\* sheets.ts lines 264-267: the loop has ended, the callback returns.
WriteRange ==
    /\ writePc = "loop"
    /\ writeC < 0
    /\ writeData' =
          Append(writeData,
                 [range |-> rangeOf(WriteTab, writeCol,
                                    updates[Len(writeData) + 1].row),
                  values |-> <<<<updates[Len(writeData) + 1].value>>>>])
    /\ writePc' = "map"
    /\ UNCHANGED <<updates, writeC, writeCol>>
    /\ WriteFrame

\* sheets.ts lines 270-276: every update converted, the batch is sent.
WriteSend ==
    /\ writePc = "map"
    /\ Len(writeData) = Len(updates)
    /\ writePc' = "sent"
    /\ UNCHANGED <<updates, writeC, writeCol, writeData>>
    /\ WriteFrame

NextWrite ==
    \/ WriteBegin
    \/ WriteLoop
    \/ WriteRange
    \/ WriteSend

\* The call runs on: a synchronous loop inside one callback.
SpecWrite == InitWrite /\ [][NextWrite]_vars /\ WF_vars(NextWrite)

(***************************************************************************)
(* Weeks specification: one distributeWeeksSeeded call, one iteration of   *)
(* its loop at a time.  seededRandom() returns a value of [0, 1); the      *)
(* model draws it from the eighths k/8, so noise is (28 + k)/32 and every  *)
(* Math.round is computed exactly on integers.                             *)
(***************************************************************************)
MaxTotal == 10
MaxWeeks == 4

\* The draws of seededRandom(), in eighths.
NoiseEighths == 0..7

\* The eighths iteration i may draw under a plan: every one, or the one a
\* fixed sequence of draws gives.
noiseAt(plan, i) ==
    CASE plan = "any"  -> NoiseEighths
      [] plan = "low"  -> {0}
      [] plan = "high" -> {7}
      [] plan = "saw"  -> {IF i % 2 = 0 THEN 7 ELSE 0}

\* Math.round of the fraction num/den, num >= 0 and den > 0.
roundFraction(num, den) == (2 * num + den) \div (2 * den)

\* fallbackData.ts lines 24-28: base of week i.
weekBase(total, weeks, opts, i) ==
    IF opts = "frontLoad"
    THEN roundFraction(total * (14 * weeks - 8 * i), 10 * weeks * weeks)
    ELSE IF opts = "backLoad"
         THEN roundFraction(total * (6 * weeks + 8 * i), 10 * weeks * weeks)
         ELSE roundFraction(total, weeks)

\* fallbackData.ts lines 29-30: Math.max(0, Math.round(base * noise)) with
\* noise = 1 + (k/8 - 0.5) * 0.25.
noisyValue(base, k) ==
    IF roundFraction(base * (28 + k), 32) < 0 THEN 0
    ELSE roundFraction(base * (28 + k), 32)

\* Mutant of weekValue: no Math.min with remaining before the last week.
weekValue_unclamped(val, remaining, isLast) ==
    IF isLast THEN (IF remaining < 0 THEN 0 ELSE remaining)
    ELSE val

\* fallbackData.ts lines 31-32: the last week takes what remains, the
\* others at most what remains.
weekValue(val, remaining, isLast) ==
    IF isLast THEN (IF remaining < 0 THEN 0 ELSE remaining)
    ELSE (IF val < remaining THEN val ELSE remaining)

\* fallbackData.ts lines 87-91: the calls buildFallbackSkus makes.
FallbackCalls ==
    {[total |-> RAW_SKUS[n].ofc.m, weeks |-> WEEKS,
      opts |-> IF RAW_SKUS[n].cat = <<"C", "h", "a", "r", "g", "e", "r">>
               THEN "frontLoad" ELSE "none"] : n \in 1..Len(RAW_SKUS)}

\* Calls with small arguments, every opts.
SmallCalls ==
    [total : 0..MaxTotal, weeks : 1..MaxWeeks,
     opts : {"none", "frontLoad", "backLoad"}]

InitWeeks ==
    /\ MapperIdle
    /\ ReadIdle
    /\ ForecastIdle
    /\ CallsIdle
    /\ SheetsIdle
    /\ ConcurrentIdle
    /\ AcceptIdle
    /\ DistAlone
    /\ \/ distArgs \in SmallCalls /\ distPlan = "any"
       \/ distArgs \in FallbackCalls /\ distPlan \in {"low", "high", "saw"}
    /\ distPc = "loop"
    /\ distI = 0
    /\ distRemaining = distArgs.total
    /\ distArr = <<>>

\* fallbackData.ts lines 23-35: one iteration.
DistWeek ==
    /\ distPc = "loop"
    /\ distI < distArgs.weeks
    /\ \E k \in noiseAt(distPlan, distI) :
        LET base == weekBase(distArgs.total, distArgs.weeks, distArgs.opts,
                             distI)
            val == weekValue(noisyValue(base, k), distRemaining,
                             distI = distArgs.weeks - 1)
        IN  /\ distRemaining' = distRemaining - val
            /\ distArr' = Append(distArr, val)
    /\ distI' = distI + 1
    /\ UNCHANGED <<distPc, distArgs, distPlan>>
    /\ DistFrame

\* fallbackData.ts line 36: return arr.
DistReturn ==
    /\ distPc = "loop"
    /\ distI >= distArgs.weeks
    /\ distPc' = "returned"
    /\ UNCHANGED <<distArgs, distPlan, distI, distRemaining, distArr>>
    /\ DistFrame

NextWeeks ==
    \/ DistWeek
    \/ DistReturn

SpecWeeks == InitWeeks /\ [][NextWeeks]_vars

(***************************************************************************)
(* Dashboard specification: the accept controls of the page and the POSTs  *)
(* handleAccept makes.  The modal's overlay covers the page, so the        *)
(* controls of the page are clicked only while no modal is open.           *)
(***************************************************************************)
MaxAccepts == 2

AcceptDirections == {"anker_accepts_c2", "c2_accepts_anker"}

\* The SKU of a row that shows the accept icons.
DiscrepantSkus == {"A1367H11-1"}

\* How a POST /api/accept ends for handleAccept: result.success, any other
\* answer, or fetch or res.json() throwing.
AcceptOutcomes == {"success", "failed", "network error"}

\* route.ts lines 717-718 and 699-708: useState(false), useState(null).
InitDash ==
    /\ MapperIdle
    /\ ReadIdle
    /\ ForecastIdle
    /\ CallsIdle
    /\ SheetsIdle
    /\ ConcurrentIdle
    /\ AcceptIdle
    /\ DashAlone
    /\ DashIdle

\* route.ts lines 1243-1274: a global accept button, disabled={accepting},
\* opens the modal.
ClickAcceptAll ==
    \E direction \in AcceptDirections :
        /\ ~accepting
        /\ confirmModal = Null
        /\ confirmModal' = NotNull([direction |-> direction, scope |-> "all",
                                    sku |-> ""])
        /\ UNCHANGED <<accepting, acceptCalls>>
        /\ DashFrame

\* route.ts lines 1745-1766 and 1557-1568: an accept icon of a row opens
\* the modal; nothing disables the icons.
ClickAcceptRow ==
    \E direction \in AcceptDirections, sku \in DiscrepantSkus :
        /\ confirmModal = Null
        /\ confirmModal' = NotNull([direction |-> direction, scope |-> "sku",
                                    sku |-> sku])
        /\ UNCHANGED <<accepting, acceptCalls>>
        /\ DashFrame

\* route.ts lines 171 and 175 with 1701: Cancel, or a click on the overlay.
ClickCancel ==
    /\ confirmModal # Null
    /\ confirmModal' = Null
    /\ UNCHANGED <<accepting, acceptCalls>>
    /\ DashFrame

\* route.ts lines 181-187 and 962-972: the confirm button calls
\* handleAccept, which sets accepting and sends the POST; the modal stays.
ClickConfirm ==
    /\ confirmModal # Null
    /\ Len(acceptCalls) < MaxAccepts
    /\ accepting' = TRUE
    /\ acceptCalls' = Append(acceptCalls,
                             [body |-> confirmModal.value,
                              state |-> "pending"])
    /\ UNCHANGED confirmModal
    /\ DashFrame

\* route.ts lines 973-987: the POST of call i ends; the finally block runs
\* whatever the outcome.
AcceptSettles ==
    \E i \in DOMAIN acceptCalls, outcome \in AcceptOutcomes :
        /\ acceptCalls[i].state = "pending"
        /\ acceptCalls' = [acceptCalls EXCEPT ![i].state = outcome]
        /\ accepting' = FALSE
        /\ confirmModal' = Null
        /\ DashFrame

NextDash ==
    \/ ClickAcceptAll
    \/ ClickAcceptRow
    \/ ClickCancel
    \/ ClickConfirm
    \/ AcceptSettles

SpecDash == InitDash /\ [][NextDash]_vars

(***************************************************************************)
(* Claims about the mapper                                                 *)
(***************************************************************************)
\* 1-based positions of the header cells that read as `text`, compared
\* trimmed and case-insensitively.
CellsReading(row, text) ==
    {i \in 1..Len(row) : toLowerCase(trim(row[i])) = toLowerCase(text)}

MinOf(S) == CHOOSE x \in S : \A y \in S : x <= y

\* C1: alias priority.  For every field key, the field is mapped exactly
\* when one of its aliases reads in some header cell, and then to the
\* leftmost cell reading as the first alias (in alias-list order) that is
\* present at all: a lower-priority alias further left never wins.
C1_AliasPriority ==
    mapperPc = "returned" =>
        \A n \in 1..Len(KNOWN_HEADERS) :
            LET key     == KNOWN_HEADERS[n].key
                aliases == KNOWN_HEADERS[n].aliases
                present == {k \in 1..Len(aliases) :
                                CellsReading(headerRow, aliases[k]) # {}}
            IN  IF present = {}
                THEN key \notin DOMAIN discovered.columnMap
                ELSE /\ key \in DOMAIN discovered.columnMap
                     /\ discovered.columnMap[key] + 1 =
                            MinOf(CellsReading(headerRow, aliases[MinOf(present)]))

\* C1 witness: "SKU" stands left of "Anker SKU" and the SKU field is mapped
\* to the "Anker SKU" column.
C1_Witness ==
    /\ mapperPc = "returned"
    /\ \E i, j \in 1..Len(headerRow) :
          /\ i < j
          /\ headerRow[i] = <<"S", "K", "U">>
          /\ headerRow[j] = <<"A", "n", "k", "e", "r", " ", "S", "K", "U">>
          /\ discovered.columnMap["ANKER_SKU"] = j - 1

IsSixDigitCode(t) == Len(t) = 6 /\ \A i \in 1..Len(t) : t[i] \in DigitSet

IsWPlusToken(t) ==
    /\ Len(t) > 2
    /\ SubSeq(t, 1, 2) = <<"W", "+">>
    /\ \A i \in 3..Len(t) : t[i] \in DigitSet

\* C2: positional week keys.  weekColumns lists exactly the header
\* positions whose trimmed text is a 6-digit code or a W+<digits> token, in
\* strictly ascending column index, each with its trimmed text as label, and
\* the i-th of them (0-based) has weekKey "W+i" whatever its label says.
C2_PositionalWeekKeys ==
    mapperPc = "returned" =>
        LET wcs   == discovered.weekColumns
            weeks == {i \in 0..(Len(headerRow) - 1) :
                         \/ IsSixDigitCode(trim(headerRow[i + 1]))
                         \/ IsWPlusToken(trim(headerRow[i + 1]))}
        IN  /\ Len(wcs) = Cardinality(weeks)
            /\ {wcs[k].index : k \in 1..Len(wcs)} = weeks
            /\ \A k \in 1..(Len(wcs) - 1) : wcs[k].index < wcs[k + 1].index
            /\ \A k \in 1..Len(wcs) :
                  /\ wcs[k].label = trim(headerRow[wcs[k].index + 1])
                  /\ wcs[k].weekKey = <<"W", "+">> \o numberToString(k - 1)

\* C2 witness: a header whose first week column is labelled "W+5" and gets
\* key "W+0", followed by a fiscal-week column that gets "W+1".
C2_Witness ==
    /\ mapperPc = "returned"
    /\ Len(discovered.weekColumns) = 2
    /\ discovered.weekColumns[1].label = <<"W", "+", "5">>
    /\ discovered.weekColumns[1].weekKey = <<"W", "+", "0">>
    /\ discovered.weekColumns[2].label = <<"2", "0", "2", "7", "0", "1">>
    /\ discovered.weekColumns[2].weekKey = <<"W", "+", "1">>

\* None of the aliases of the n-th field key of KNOWN_HEADERS reads in a
\* cell of the header row.
HasNoAlias(row, n) ==
    \A k \in 1..Len(KNOWN_HEADERS[n].aliases) :
        CellsReading(row, KNOWN_HEADERS[n].aliases[k]) = {}

\* The positions in the warnings list of the warnings about a field key,
\* and of those about missing weekly columns.
FieldWarnings(warnings, key) ==
    {i \in 1..Len(warnings) :
        "column" \in DOMAIN warnings[i] /\ warnings[i].column = key}

WeekWarnings(warnings) ==
    {i \in 1..Len(warnings) : "column" \notin DOMAIN warnings[i]}

\* C15: discoverColumns returns for every header row; a field key without
\* a matching alias is left unmapped, and the warnings are exactly one per
\* unmapped field key plus exactly one more if and only if no weekly column
\* was found, in which case weekColumns is empty.
C15_WarningsNotFailures ==
    mapperPc = "returned" =>
        /\ \A n \in 1..Len(KNOWN_HEADERS) :
              LET missing == HasNoAlias(headerRow, n)
              IN  /\ missing
                        <=> (KNOWN_HEADERS[n].key \notin DOMAIN discovered.columnMap)
                  /\ Cardinality(FieldWarnings(discovered.warnings,
                                               KNOWN_HEADERS[n].key))
                       = IF missing THEN 1 ELSE 0
        /\ Cardinality(WeekWarnings(discovered.warnings))
             = IF \E i \in 1..Len(headerRow) :
                     \/ IsSixDigitCode(trim(headerRow[i]))
                     \/ IsWPlusToken(trim(headerRow[i]))
               THEN 0 ELSE 1
        /\ Cardinality(WeekWarnings(discovered.warnings)) = 1
              => discovered.weekColumns = <<>>
        /\ Len(discovered.warnings)
             = Cardinality({n \in 1..Len(KNOWN_HEADERS) :
                               KNOWN_HEADERS[n].key
                                   \notin DOMAIN discovered.columnMap})
               + Cardinality(WeekWarnings(discovered.warnings))

\* C15 witness: the empty header row returned with nothing mapped, one
\* warning for each of the twelve field keys and one for the weeks.
C15_Witness ==
    /\ mapperPc = "returned"
    /\ headerRow = <<>>
    /\ discovered.columnMap = <<>>
    /\ discovered.weekColumns = <<>>
    /\ Len(discovered.warnings) = Len(KNOWN_HEADERS) + 1

\* C16: two calls of discoverColumns on an identical header row, whatever
\* calls on other rows come between them, return the same ColumnMap, the
\* same WeekColumn list (indices, labels and keys in the same order) and
\* the same warnings, and every call leaves its header row as it was.
C16_RepeatedCallsAgree ==
    /\ \A i \in 1..Len(calls) : calls[i].rowAfter = calls[i].row
    /\ \A i \in 1..Len(calls) : \A j \in 1..Len(calls) :
           calls[i].row = calls[j].row =>
               /\ calls[i].result.columnMap = calls[j].result.columnMap
               /\ calls[i].result.weekColumns = calls[j].result.weekColumns
               /\ calls[i].result.warnings = calls[j].result.warnings

\* Three calls: the first and the third on the same row with weekly and
\* known columns, the second on another row with a weekly column.
C16_Witness ==
    /\ Len(calls) = 3
    /\ calls[1].row = calls[3].row
    /\ calls[2].row # calls[1].row
    /\ Len(calls[1].result.weekColumns) = 2
    /\ DOMAIN calls[1].result.columnMap # {}
    /\ Len(calls[2].result.weekColumns) = 1

(***************************************************************************)
(* Claims about the reader                                                 *)
(***************************************************************************)
\* The header row and the data rows of the sheet the call read.
SheetHeader == readInput.values[HeaderRowIndex + 1]

SheetRows == SubSeq(readInput.values, DataStartRow + 1, Len(readInput.values))

SkuAliases == KNOWN_HEADERS[1].aliases

CustomerAliases == KNOWN_HEADERS[2].aliases

\* The 1-based position of the column the field with these aliases is read
\* from: the leftmost cell reading as the first alias present; 0 if none is.
ColumnFor(header, aliases) ==
    LET present == {k \in 1..Len(aliases) : CellsReading(header, aliases[k]) # {}}
    IN  IF present = {} THEN 0
        ELSE MinOf(CellsReading(header, aliases[MinOf(present)]))

\* The text of cell `col` (1-based) of a row, trimmed; empty for a cell
\* the row lacks and for column 0.
CellText(row, col) ==
    IF col >= 1 /\ col <= Len(row) THEN trim(row[col]) ELSE <<>>

\* The text contains "voicecomm" in any letter case.
NamesVoiceComm(text) ==
    \E i \in 1..Len(text) :
        /\ i + 8 <= Len(text)
        /\ toLowerCase(SubSeq(text, i, i + 8)) = VoiceCommText

\* The data rows (by 1-based position) that carry an identifier and are not
\* customer-excluded.
KeptRows ==
    {n \in 1..Len(SheetRows) :
        /\ CellText(SheetRows[n], ColumnFor(SheetHeader, SkuAliases)) # <<>>
        /\ ~NamesVoiceComm(CellText(SheetRows[n],
                                    ColumnFor(SheetHeader, CustomerAliases)))}

\* C9: skip on missing identifier.  With a SKU column mapped, a data row
\* whose SKU cell is missing, empty or blank yields no record whatever else
\* it holds, and every other row that is not customer-excluded yields
\* exactly one record, in row order, whose sku is the trimmed cell text.
C9_SkipOnMissingIdentifier ==
    (readPc = "returned" /\ readResult.ok
        /\ ColumnFor(SheetHeader, SkuAliases) # 0) =>
        /\ Len(readResult.data) = Cardinality(KeptRows)
        /\ \A j \in 1..Len(readResult.data) :
              \E n \in KeptRows :
                  /\ Cardinality({m \in KeptRows : m < n}) = j - 1
                  /\ readResult.data[j].sku =
                         CellText(SheetRows[n], ColumnFor(SheetHeader, SkuAliases))

\* C9 witness: a first row with a blank SKU cell and its other cells
\* filled in is skipped, a second row " A1 " yields the only record, "A1".
C9_Witness ==
    /\ readPc = "returned" /\ readResult.ok
    /\ Len(SheetHeader) = 3
    /\ SheetHeader[1] = <<"A", "n", "k", "e", "r", " ", "S", "K", "U">>
    /\ Len(SheetRows) = 2
    /\ SheetRows[1] = << <<" ">>, <<"A", "c", "m", "e">>, <<"7">> >>
    /\ Len(SheetRows[2]) > 0
    /\ SheetRows[2][1] = <<" ", "A", "1", " ">>
    /\ Len(readResult.data) = 1
    /\ readResult.data[1].sku = <<"A", "1">>

\* C10: fail closed on an unmapped SKU.  When no header cell reads as a SKU
\* alias, the SKU field is absent from the column map and the call returns
\* no record, whatever the data rows hold.
C10_FailClosedOnUnmappedSku ==
    (readPc = "returned" /\ readResult.ok
        /\ \A k \in 1..Len(SkuAliases) :
              CellsReading(SheetHeader, SkuAliases[k]) = {}) =>
        /\ "ANKER_SKU" \notin DOMAIN readResult.columnMapping
        /\ readResult.data = <<>>

\* C10 witness: a sheet without a SKU header whose two data rows are
\* filled in completely, read successfully with no record.
C10_Witness ==
    /\ readPc = "returned" /\ readResult.ok
    /\ "ANKER_SKU" \notin DOMAIN readResult.columnMapping
    /\ Len(SheetHeader) = 3
    /\ Len(SheetRows) = 2
    /\ \A n \in 1..2 : Len(SheetRows[n]) = 3 /\ \A c \in 1..3 : SheetRows[n][c] # <<>>
    /\ readResult.data = <<>>

\* The customer of a data row: the trimmed customer cell, "Unknown" when
\* the column is unmapped or the cell is missing or blank.
CustomerOfRow(row) ==
    IF CellText(row, ColumnFor(SheetHeader, CustomerAliases)) = <<>>
    THEN <<"U", "n", "k", "n", "o", "w", "n">>
    ELSE CellText(row, ColumnFor(SheetHeader, CustomerAliases))

\* The data rows (by 1-based position) with an identifier whose customer
\* is not excluded.
IncludedRows ==
    {n \in 1..Len(SheetRows) :
        /\ CellText(SheetRows[n], ColumnFor(SheetHeader, SkuAliases)) # <<>>
        /\ ~NamesVoiceComm(CustomerOfRow(SheetRows[n]))}

\* C12: a row with a valid SKU whose customer column is unmapped, missing
\* or blank gets customer "Unknown"; a row with a valid SKU is skipped
\* exactly when its customer contains "voicecomm" in any letter case, so no
\* record has an excluded customer.
C12_CustomerDefaultAndExclusion ==
    (readPc = "returned" /\ readResult.ok
        /\ ColumnFor(SheetHeader, SkuAliases) # 0) =>
        /\ Len(readResult.data) = Cardinality(IncludedRows)
        /\ \A j \in 1..Len(readResult.data) :
              /\ ~NamesVoiceComm(readResult.data[j].customer)
              /\ \E n \in IncludedRows :
                    /\ Cardinality({m \in IncludedRows : m < n}) = j - 1
                    /\ readResult.data[j].customer = CustomerOfRow(SheetRows[n])

\* C12 witness: of two rows with SKU A1 the one of " VoiceComm Inc" is
\* skipped and the one with a blank customer cell is recorded as Unknown.
C12_Witness ==
    /\ readPc = "returned" /\ readResult.ok
    /\ Len(SheetHeader) = 3
    /\ ColumnFor(SheetHeader, CustomerAliases) = 2
    /\ Len(SheetRows) = 2
    /\ Len(SheetRows[1]) >= 2 /\ Len(SheetRows[2]) >= 2
    /\ SheetRows[1][1] = <<" ", "A", "1", " ">>
    /\ NamesVoiceComm(SheetRows[1][2])
    /\ SheetRows[2][1] = <<" ", "A", "1", " ">>
    /\ SheetRows[2][2] = <<" ">>
    /\ Len(readResult.data) = 1
    /\ readResult.data[1].customer = <<"U", "n", "k", "n", "o", "w", "n">>

\* The numeric fields of a record and the position of each one's aliases in
\* KNOWN_HEADERS.
NumericRecordFields ==
    << [field |-> "price", known |-> 3], [field |-> "selloutAvg", known |-> 5],
       [field |-> "oh", known |-> 6], [field |-> "wos", known |-> 7],
       [field |-> "totalOfc", known |-> 8], [field |-> "q1", known |-> 9],
       [field |-> "q2", known |-> 10], [field |-> "q3", known |-> 11],
       [field |-> "q4", known |-> 12] >>

\* 1-based positions of the weekly columns of a header, ascending.
WeekPositions(header) ==
    {i \in 1..Len(header) :
        IsSixDigitCode(trim(header[i])) \/ IsWPlusToken(trim(header[i]))}

NthOf(S, n) == CHOOSE x \in S : Cardinality({y \in S : y < x}) = n - 1

IsCurrencyNoise(c) == c \in {"$", ","} \cup WhiteSpace

\* A cell text reads as no number: once currency signs, thousands
\* separators and blanks are dropped it does not begin with a digit, with a
\* sign or a decimal point before a digit, or with the word Infinity.
NonNumeric(text) ==
    LET t    == SelectSeq(text, LAMBDA c : ~IsCurrencyNoise(c))
        body == IF Len(t) > 0 /\ t[1] \in {"+", "-"} THEN Tail(t) ELSE t
    IN  ~ \/ (Len(body) >= 1 /\ body[1] \in DigitSet)
          \/ (Len(body) >= 2 /\ body[1] = "." /\ body[2] \in DigitSet)
          \/ (Len(body) >= 8 /\ SubSeq(body, 1, 8)
                                  = <<"I", "n", "f", "i", "n", "i", "t", "y">>)

\* The untrimmed text of cell `col` (1-based) of a row, empty for a cell the
\* row lacks and for column 0.
RawCell(row, col) == IF col >= 1 /\ col <= Len(row) THEN row[col] ELSE <<>>

\* C13: for every row with a valid SKU the row is emitted, and each numeric
\* field and weekly quantity whose cell is unmapped, beyond the end of the
\* row, empty or non-numeric text is 0; no numeric field or weekly quantity
\* of a record is NaN.
C13_ZeroDegradation ==
    (readPc = "returned" /\ readResult.ok
        /\ ColumnFor(SheetHeader, SkuAliases) # 0) =>
        /\ Len(readResult.data) = Cardinality(KeptRows)
        /\ \A j \in 1..Len(readResult.data) :
              /\ \A f \in 1..Len(NumericRecordFields) :
                    /\ readResult.data[j][NumericRecordFields[f].field].kind # "NaN"
                    /\ NonNumeric(RawCell(SheetRows[NthOf(KeptRows, j)],
                            ColumnFor(SheetHeader,
                                KNOWN_HEADERS[NumericRecordFields[f].known].aliases)))
                       => readResult.data[j][NumericRecordFields[f].field] = Zero
              /\ Len(readResult.data[j].weeks)
                   = Cardinality(WeekPositions(SheetHeader))
              /\ \A w \in 1..Len(readResult.data[j].weeks) :
                    /\ readResult.data[j].weeks[w].value.kind # "NaN"
                    /\ NonNumeric(RawCell(SheetRows[NthOf(KeptRows, j)],
                                          NthOf(WeekPositions(SheetHeader), w)))
                       => readResult.data[j].weeks[w].value = Zero

\* C13 witness: a row with SKU B2 whose first weekly cell is empty and
\* whose second reads "n/a", under a header without a price column, is
\* emitted with both weekly quantities and the price 0.
C13_Witness ==
    /\ readPc = "returned" /\ readResult.ok
    /\ Len(SheetRows) = 1
    /\ SheetRows[1] = << <<>>, <<"B", "2">>, <<"n", "/", "a">> >>
    /\ Len(readResult.data) = 1
    /\ readResult.data[1].sku = <<"B", "2">>
    /\ readResult.data[1].price = Zero
    /\ Len(readResult.data[1].weeks) = 2
    /\ readResult.data[1].weeks[1].value = Zero
    /\ readResult.data[1].weeks[2].value = Zero

(***************************************************************************)
(* Claims about the reconciliation of GET /api/forecast                    *)
(***************************************************************************)
\* Both sheets were read and the response has been answered.
Reconciled == forecastPc = "done" /\ ankerResult.ok /\ c2Result.ok

SourceA == ankerResult.data

SourceB == c2Result.data

Flagged == response.discrepancies

WeekKeySet(rec) == {rec.weeks[i].key : i \in 1..Len(rec.weeks)}

\* The quantity a record holds for a week, 0 for a week it does not have.
WeekValue(rec, w) ==
    IF w \in WeekKeySet(rec)
    THEN rec.weeks[CHOOSE i \in 1..Len(rec.weeks) : rec.weeks[i].key = w].value
    ELSE Zero

HasSku(source, sku) == \E j \in 1..Len(source) : source[j].sku = sku

\* The last record of a source with the given SKU, in row order.
LastWithSku(source, sku) ==
    source[CHOOSE j \in 1..Len(source) :
              /\ source[j].sku = sku
              /\ \A k \in (j + 1)..Len(source) : source[k].sku # sku]

\* x * 10^scale as an integer, for a finite x with x.e <= scale.
ScaledTo(x, scale) == x.m * Pow10(scale - x.e)

MaxOf(S) == CHOOSE x \in S : \A y \in S : y <= x

\* diff = c - a on finite numbers, by cross-multiplication.
IsDifference(diff, c, a) ==
    /\ diff.kind = "finite" /\ c.kind = "finite" /\ a.kind = "finite"
    /\ ScaledTo(diff, MaxOf({diff.e, c.e, a.e}))
         = ScaledTo(c, MaxOf({diff.e, c.e, a.e}))
           - ScaledTo(a, MaxOf({diff.e, c.e, a.e}))

\* d is the discrepancy of A's record a in week w against B's record b.
IsDiscrepancyOf(d, a, w, b) ==
    /\ d.sku = a.sku
    /\ d.week = w
    /\ d.anker = WeekValue(a, w)
    /\ d.c2 = WeekValue(b, w)

PairsOf(ds) == {<<ds[k].sku, ds[k].week>> : k \in 1..Len(ds)}

\* C3: reconciling (A, B) and reconciling (B, A) flag the same (sku, weekKey)
\* pairs, and each pair's difference in the second run is the negation of
\* its difference in the first.
C3_SymmetryLaw ==
    Reconciled =>
        /\ PairsOf(Flagged)
             = PairsOf(findDiscrepancies(SourceB, SourceA, Len(SourceB)))
        /\ \A k \in 1..Len(Flagged) :
              \A r \in {findDiscrepancies(SourceB, SourceA, Len(SourceB))[j] :
                          j \in 1..Len(findDiscrepancies(SourceB, SourceA,
                                                         Len(SourceB)))} :
                  (r.sku = Flagged[k].sku /\ r.week = Flagged[k].week)
                      => IsDifference(r.diff, Zero, Flagged[k].diff)

\* C4: a week w of an A record a is flagged exactly when B has a record with
\* a's SKU and the two values differ; a SKU absent from B is never flagged;
\* every discrepancy carries anker = A's value, c2 = B's value and
\* diff = c2 - anker, which is not 0.
C4_EmitIffDiffer ==
    Reconciled =>
        /\ \A i \in 1..Len(SourceA) : \A w \in WeekKeySet(SourceA[i]) :
              (\E k \in 1..Len(Flagged) :
                  /\ Flagged[k].sku = SourceA[i].sku
                  /\ Flagged[k].week = w
                  /\ Flagged[k].anker = WeekValue(SourceA[i], w))
              <=> (/\ HasSku(SourceB, SourceA[i].sku)
                   /\ WeekValue(SourceA[i], w)
                        # WeekValue(LastWithSku(SourceB, SourceA[i].sku), w))
        /\ \A k \in 1..Len(Flagged) :
              /\ HasSku(SourceB, Flagged[k].sku)
              /\ \E i \in 1..Len(SourceA) :
                    IsDiscrepancyOf(Flagged[k], SourceA[i], Flagged[k].week,
                                    LastWithSku(SourceB, Flagged[k].sku))
              /\ IsDifference(Flagged[k].diff, Flagged[k].c2, Flagged[k].anker)
              /\ Flagged[k].diff # Zero

\* A's SKU that B lacks went unflagged next to one that B has and whose
\* week differs, flagged with a non-zero difference.
C4_Witness ==
    /\ Reconciled
    /\ Len(Flagged) > 0
    /\ Flagged[1].diff.m < 0
    /\ \E i \in 1..Len(SourceA) : ~HasSku(SourceB, SourceA[i].sku)
    /\ \E i \in 1..Len(SourceA) : \E w \in WeekKeySet(SourceA[i]) :
          /\ HasSku(SourceB, SourceA[i].sku)
          /\ WeekValue(SourceA[i], w)
               = WeekValue(LastWithSku(SourceB, SourceA[i].sku), w)

\* C5: for a SKU of both sources, a week that A's record has and the matched
\* B record lacks is compared with 0: when A's value is not 0 a discrepancy
\* with c2 = 0 and diff = -A's value is reported.
C5_AbsentWeekReadsZero ==
    Reconciled =>
        \A i \in 1..Len(SourceA) :
            HasSku(SourceB, SourceA[i].sku) =>
                \A w \in WeekKeySet(SourceA[i])
                         \ WeekKeySet(LastWithSku(SourceB, SourceA[i].sku)) :
                    WeekValue(SourceA[i], w) # Zero =>
                        \E k \in 1..Len(Flagged) :
                            /\ Flagged[k].sku = SourceA[i].sku
                            /\ Flagged[k].week = w
                            /\ Flagged[k].anker = WeekValue(SourceA[i], w)
                            /\ Flagged[k].c2 = Zero
                            /\ IsDifference(Flagged[k].diff, Zero,
                                            WeekValue(SourceA[i], w))

\* A two-week A record met a one-week B record and the extra week, not 0,
\* is among the discrepancies.
C5_Witness ==
    /\ Reconciled
    /\ \E i \in 1..Len(SourceA) :
          /\ HasSku(SourceB, SourceA[i].sku)
          /\ \E w \in WeekKeySet(SourceA[i])
                      \ WeekKeySet(LastWithSku(SourceB, SourceA[i].sku)) :
                /\ WeekValue(SourceA[i], w) # Zero
                /\ <<SourceA[i].sku, w>> \in PairsOf(Flagged)

\* C6, as stated: every discrepancy is for a SKU with a record in A and in
\* B and a week that is a key of the A record's weeks and of the matched B
\* record's weeks.
C6_WeekInBothSources ==
    Reconciled =>
        \A k \in 1..Len(Flagged) :
            /\ \E i \in 1..Len(SourceA) :
                  /\ SourceA[i].sku = Flagged[k].sku
                  /\ Flagged[k].week \in WeekKeySet(SourceA[i])
            /\ HasSku(SourceB, Flagged[k].sku)
            /\ Flagged[k].week
                 \in WeekKeySet(LastWithSku(SourceB, Flagged[k].sku))

\* C6, amended: every discrepancy is for a SKU with a record in A and in B
\* and a week that is a key of that A record's weeks; the matched B record
\* need not have the week.
C6_WeekOfSourceA ==
    Reconciled =>
        \A k \in 1..Len(Flagged) :
            /\ \E i \in 1..Len(SourceA) :
                  /\ SourceA[i].sku = Flagged[k].sku
                  /\ Flagged[k].week \in WeekKeySet(SourceA[i])
            /\ HasSku(SourceB, Flagged[k].sku)

\* A discrepancy was reported for a week the matched B record lacks, while
\* another SKU of A's, with a week that is not 0, is not in B at all.
C6_Witness ==
    /\ Reconciled
    /\ \E k \in 1..Len(Flagged) :
          Flagged[k].week \notin WeekKeySet(LastWithSku(SourceB, Flagged[k].sku))
    /\ \E i \in 1..Len(SourceA) :
          /\ ~HasSku(SourceB, SourceA[i].sku)
          /\ \E w \in WeekKeySet(SourceA[i]) : WeekValue(SourceA[i], w) # Zero

\* The offset N of a key W+N.
WeekOffset(weekKey) == digitsValue(SubSeq(weekKey, 3, Len(weekKey)))

\* The week keys of a record by ascending offset.
KeysAscending(rec) ==
    [n \in 1..Cardinality(WeekKeySet(rec)) |->
        CHOOSE w \in WeekKeySet(rec) :
            Cardinality({v \in WeekKeySet(rec) : WeekOffset(v) < WeekOffset(w)})
              = n - 1]

\* The (sku, week) pairs of a's weeks that differ from b's, among the first
\* n weeks by ascending offset and in that order.
RECURSIVE DifferingWeeks(_, _, _)
DifferingWeeks(a, b, n) ==
    IF n = 0 THEN <<>>
    ELSE DifferingWeeks(a, b, n - 1)
         \o (IF WeekValue(a, KeysAscending(a)[n]) # WeekValue(b, KeysAscending(a)[n])
             THEN << <<a.sku, KeysAscending(a)[n]>> >>
             ELSE <<>>)

\* The differing pairs of the first n records of A, record by record.
RECURSIVE DifferingPairs(_, _, _)
DifferingPairs(A, B, n) ==
    IF n = 0 THEN <<>>
    ELSE DifferingPairs(A, B, n - 1)
         \o (IF HasSku(B, A[n].sku)
             THEN DifferingWeeks(A[n], LastWithSku(B, A[n].sku),
                                 Cardinality(WeekKeySet(A[n])))
             ELSE <<>>)

\* C7: the discrepancies follow A's record order and, within one record,
\* ascending week offset; the list is determined by the two inputs.
C7_RecordThenWeekOrder ==
    Reconciled =>
        [k \in 1..Len(Flagged) |-> <<Flagged[k].sku, Flagged[k].week>>]
          = DifferingPairs(SourceA, SourceB, Len(SourceA))

\* Two records of A's were flagged, the first of them in both of its weeks.
C7_Witness ==
    /\ Reconciled
    /\ Len(SourceA) = 2
    /\ SourceA[1].sku # SourceA[2].sku
    /\ Len(Flagged) >= 3
    /\ Flagged[1].sku = SourceA[1].sku
    /\ Flagged[2].sku = SourceA[1].sku
    /\ WeekOffset(Flagged[1].week) < WeekOffset(Flagged[2].week)
    /\ Flagged[3].sku = SourceA[2].sku

\* C8: when several B records share a SKU, an A record with that SKU is
\* compared against the last of them only, and the response is answered.
C8_LastDuplicateWins ==
    Reconciled =>
        \A i \in 1..Len(SourceA) :
            Cardinality({j \in 1..Len(SourceB) : SourceB[j].sku = SourceA[i].sku}) > 1
            => /\ \A w \in WeekKeySet(SourceA[i]) :
                     (WeekValue(SourceA[i], w)
                        # WeekValue(LastWithSku(SourceB, SourceA[i].sku), w))
                     <=> \E k \in 1..Len(Flagged) :
                            IsDiscrepancyOf(Flagged[k], SourceA[i], w,
                                            LastWithSku(SourceB, SourceA[i].sku))
               /\ \A k \in 1..Len(Flagged) :
                     Flagged[k].sku = SourceA[i].sku
                     => Flagged[k].c2
                          = WeekValue(LastWithSku(SourceB, SourceA[i].sku),
                                      Flagged[k].week)

\* B has the SKU twice with different values for a week; A's value equals
\* the first's and is flagged against the last's.
C8_Witness ==
    /\ Reconciled
    /\ Len(SourceB) = 2
    /\ SourceB[1].sku = SourceB[2].sku
    /\ \E k \in 1..Len(Flagged) :
          /\ Flagged[k].sku = SourceB[1].sku
          /\ Flagged[k].anker = WeekValue(SourceB[1], Flagged[k].week)
          /\ Flagged[k].c2 = WeekValue(SourceB[2], Flagged[k].week)

(***************************************************************************)
(* Claims about the faults GET /api/forecast meets                         *)
(***************************************************************************)
\* The header row of Anker's tab, as the request read it, has no cell.
AnkerHeaderEmpty ==
    /\ Len(ankerValues) > HeaderRowIndex
    /\ ankerValues[HeaderRowIndex + 1] = <<>>

\* C11: when the header row of Anker's sheet is empty, GET /api/forecast
\* answers with the fallback result, not with a response built from that
\* grid.
C11_EmptyHeaderFallsBack ==
    (forecastPc = "done" /\ AnkerHeaderEmpty) => response = getFallbackData

\* The week keys of a tab: W+0 ... W+(k-1) for the k weekly columns of its
\* header row.
WeekKeysOfTab(values) ==
    [i \in 1..Cardinality(WeekPositions(values[HeaderRowIndex + 1])) |->
        <<"W", "+">> \o numberToString(i - 1)]

RecordsHaveWeekKeys(data, keys) ==
    \A j \in 1..Len(data) :
        /\ Len(data[j].weeks) = Len(keys)
        /\ {data[j].weeks[i].key : i \in 1..Len(data[j].weeks)}
             = {keys[i] : i \in 1..Len(keys)}

\* C14: the weekly quantities of every record of a source have exactly the
\* week keys discovered for that source's header, W+0 ... W+(k-1), also
\* for a row shorter than the header, and meta.weekColumns of the response
\* is that key sequence of Anker's source.
C14_WeekKeysOfRecords ==
    /\ ankerResult.ok => RecordsHaveWeekKeys(ankerResult.data,
                                             WeekKeysOfTab(ankerValues))
    /\ c2Result.ok => RecordsHaveWeekKeys(c2Result.data, WeekKeysOfTab(c2Values))
    /\ (forecastPc = "done" /\ ankerResult.ok)
           => response.meta.weekColumns = WeekKeysOfTab(ankerValues)

\* A row of Anker's that ends before the last weekly column was recorded
\* with both week keys, next to C2 records with their one key.
C14_Witness ==
    /\ forecastPc = "done" /\ ankerResult.ok /\ c2Result.ok
    /\ Len(ankerValues) = DataStartRow + 1
    /\ Len(ankerValues[DataStartRow + 1]) < Len(ankerValues[HeaderRowIndex + 1])
    /\ Len(ankerResult.data) = 1
    /\ Len(ankerResult.data[1].weeks) = 2
    /\ response.meta.weekColumns = << <<"W", "+", "0">>, <<"W", "+", "1">> >>
    /\ Len(c2Result.data) > 0
    /\ Len(c2Result.data[1].weeks) = 1

\* The shape of a forecast response: both sources' parts, the summary of
\* Anker's records and a mode that says whether C2's part is there.
WellFormed(resp) ==
    /\ DOMAIN resp = {"anker", "c2", "discrepancies", "meta"}
    /\ DOMAIN resp.anker = {"lastModified", "data"}
    /\ resp.meta.totalSkus = Len(resp.anker.data)
    /\ resp.meta.totalUnits = sumTotalOfc(resp.anker.data, Len(resp.anker.data))
    /\ resp.meta.mode \in {"single", "dual"}
    /\ resp.meta.mode = "single" <=> resp.c2 = Null
    /\ resp.c2 # Null => {"lastModified", "data"} \subseteq DOMAIN resp.c2

\* The request met one of the faults answered by the fallback: credentials
\* missing, ANKER_SHEET_ID missing, or the read of Anker's sheet null.
FallbackCase ==
    \/ ~isSheetsConfigured(env)
    \/ ~env.ANKER_SHEET_ID
    \/ ~ankerResult.ok

\* The read of C2's sheet, and only it, failed.
C2ReadAloneFailed ==
    /\ ~FallbackCase
    /\ isC2SheetConfigured(env)
    /\ ~c2Result.ok

\* C18: every answer of GET /api/forecast is a well-formed forecast
\* response; it is the hardcoded fallback (mode single, c2 null, no
\* discrepancies) when credentials or ANKER_SHEET_ID are missing or the
\* read of Anker's sheet returns null; and when only the read of C2's
\* sheet fails it carries the live Anker records.
C18_AlwaysAnswers ==
    forecastPc = "done" =>
        /\ response # Null
        /\ WellFormed(response)
        /\ FallbackCase =>
              /\ response = getFallbackData
              /\ response.meta.mode = "single"
              /\ response.c2 = Null
              /\ response.discrepancies = <<>>
        /\ C2ReadAloneFailed =>
              /\ response.anker.data = ankerResult.data
              /\ response.anker.lastModified = ankerResult.lastModified
              /\ response.meta.mode = "single"
              /\ response.discrepancies = <<>>

\* Anker's sheet was read with records in it and the read of C2's failed.
C18_Witness ==
    /\ forecastPc = "done"
    /\ C2ReadAloneFailed
    /\ Len(ankerResult.data) > 0
    /\ response.anker.data = ankerResult.data

\* C21: in every answer of GET /api/forecast, live or fallback, meta.mode
\* is dual exactly when c2 is not null, which is exactly when the C2 sheet
\* is configured and its read succeeded; and a single-mode answer has no
\* discrepancies.
C21_ModeInvariant ==
    forecastPc = "done" =>
        /\ response.meta.mode = "dual" <=> response.c2 # Null
        /\ response.c2 # Null <=> (isC2SheetConfigured(env) /\ c2Result.ok)
        /\ response.meta.mode = "single" => response.discrepancies = <<>>

\* A dual-mode answer with discrepancies.
C21_Witness ==
    /\ forecastPc = "done"
    /\ response.meta.mode = "dual"
    /\ response.c2.data = c2Result.data
    /\ Len(response.discrepancies) > 0

(***************************************************************************)
(* Claims about concurrent requests                                        *)
(***************************************************************************)
\* readCpfrSheet called by a request that runs alone, given what the
\* outside world answers it.
aloneRead(sheet, throws, time) ==
    readCpfrSheet([client |-> TRUE, throws |-> throws, values |-> sheet,
                   modifiedTime |-> time, now |-> "now"])

aloneDual(a, c) ==
    IF c.ok THEN dualResponse(singleResponse(a), a, c) ELSE singleResponse(a)

aloneLive(e, a, c) ==
    IF ~a.ok THEN seededFallbackData(42).response
    ELSE IF ~isC2SheetConfigured(e) THEN singleResponse(a)
    ELSE aloneDual(a, c)

\* The response of GET /api/forecast run alone in a fresh process (_seed
\* as the module initialises it) against the given tabs, the outside world
\* answering its calls as in heard.
GetAlone(e, aSheet, cSheet, heard) ==
    IF ~isSheetsConfigured(e) \/ ~e.ANKER_SHEET_ID
    THEN seededFallbackData(42).response
    ELSE aloneLive(e, aloneRead(aSheet, heard.ankerThrows, heard.ankerTime),
                   aloneRead(cSheet, heard.c2Throws, heard.c2Time))

\* C17: every request that has answered, however its steps were interleaved
\* with the other requests' at the awaits, answered the response it gives
\* when it runs alone against the same tabs and the same answers of the
\* Sheets and Drive calls.
C17_ConcurrentAsAlone ==
    \A r \in DOMAIN reqs :
        reqs[r].pc = "done" =>
            reqs[r].response = GetAlone(env, ankerSheet, c2Sheet, reqs[r].heard)

\* Two requests have answered, each having taken steps while the other was
\* between its awaits: one a dual-source response with discrepancies, the
\* other the fallback after its read of Anker's sheet failed.
C17_Witness ==
    /\ DOMAIN reqs # {}
    /\ \A r \in DOMAIN reqs : reqs[r].pc = "done" /\ reqs[r].interleaved
    /\ \E r \in DOMAIN reqs : /\ reqs[r].response.meta.mode = "dual"
                              /\ Len(reqs[r].response.discrepancies) > 0
    /\ \E r \in DOMAIN reqs : reqs[r].heard.ankerThrows

(***************************************************************************)
(* Claims about POST /api/accept and the change log                        *)
(***************************************************************************)
\* The discrepancies the next GET /api/forecast reports, both sheets being
\* configured and read.
NextGetDiscrepancies ==
    GetAlone([GOOGLE_SERVICE_ACCOUNT_EMAIL |-> TRUE, GOOGLE_PRIVATE_KEY |-> TRUE,
              ANKER_SHEET_ID |-> TRUE, C2_SHEET_ID |-> TRUE],
             ankerSheet, c2Sheet,
             [ankerThrows |-> FALSE, ankerTime |-> Some("modifiedTime"),
              c2Throws    |-> FALSE, c2Time    |-> Some("modifiedTime")]).discrepancies

AcceptedAll(p) ==
    /\ posts[p].pc = "done"
    /\ posts[p].response.status = 200
    /\ posts[p].body.scope = "all"

\* C19: once a POST /api/accept with scope all, in either direction, has
\* answered success, the next GET /api/forecast reports no discrepancies.
C19_AcceptAligns ==
    (\E p \in DOMAIN posts : AcceptedAll(p)) => NextGetDiscrepancies = <<>>

AllPostsDone == DOMAIN posts # {} /\ \A p \in DOMAIN posts : posts[p].pc = "done"

InLog(entry) == \E i \in 1..Len(logFile) : logFile[i] = entry

\* C20: once all the calls of addChangeLogEntry have completed, the stored
\* log holds every entry a call read from it and the entry of every accept
\* that answered success.
C20_AllEntriesKept ==
    AllPostsDone =>
        \A p \in DOMAIN posts :
            posts[p].response.status = 200 =>
                /\ InLog(posts[p].full)
                /\ \A i \in 1..Len(posts[p].entries) : InLog(posts[p].entries[i])

(***************************************************************************)
(* Claims about GET /api/changes and the shape of the change log           *)
(***************************************************************************)
IsPrefixOf(xs, ys) == Len(xs) <= Len(ys) /\ xs = SubSeq(ys, 1, Len(xs))

\* C22: whatever the limit parameter and the stored log, the entries GET
\* /api/changes answers with are at most 100, a prefix of the stored
\* newest-first log, and total is their number.
C22_AtMostHundred ==
    changesPc = "done" =>
        /\ Len(changesResponse.entries) <= 100
        /\ IsPrefixOf(changesResponse.entries, logFile)
        /\ changesResponse.total = Len(changesResponse.entries)

\* C23: after every sequential addChangeLogEntry call the stored log has
\* at most 200 entries, the call's entry is at index 0, the entries stored
\* before follow it in the order they had, and only entries at the tail
\* of the log (the oldest) are dropped, as many as the cap requires.
C23_LogShape ==
    /\ Len(logFile) <= MAX_ENTRIES
    /\ adds > 0 =>
          /\ logFile[1] = lastFull
          /\ IsPrefixOf(Tail(logFile), logBefore)
          /\ Len(logFile) = IF Len(logBefore) + 1 > MAX_ENTRIES
                            THEN MAX_ENTRIES ELSE Len(logBefore) + 1

\* Two calls on a full log: each dropped the oldest entry.
C23_Witness ==
    /\ adds = 2
    /\ Len(logBefore) = MAX_ENTRIES
    /\ Len(logFile) = MAX_ENTRIES
    /\ logFile[1] = lastFull
    /\ logFile[MAX_ENTRIES] = logBefore[MAX_ENTRIES - 1]

\* The entries of the stored log that request p's call wrote.
LoggedBy(p) == {i \in 1..Len(logFile) : logFile[i].id = p}

AlertMoves(p) == posts'[p].alert # posts[p].alert /\ posts[p].pc = "done"

\* C25: a valid accept whose entry is written answers success with that
\* entry whatever has become of its alert (skipped, pending, sent,
\* failed), and the completion of an alert changes neither an answer nor
\* the stored log.
C25_AlertsNeverBlock ==
    /\ [](\A p \in DOMAIN posts :
            (posts[p].pc = "done" /\ posts[p].alert # "none") =>
                /\ posts[p].response.status = 200
                /\ posts[p].response.success
                /\ posts[p].response.entry = posts[p].full)
    /\ [][\A p \in DOMAIN posts :
            AlertMoves(p) =>
                /\ posts'[p].response = posts[p].response
                /\ logFile' = logFile]_vars

\* One accept answered success while its alert was still pending, another
\* with an alert that then failed; both entries are stored.
C25_Witness ==
    /\ \E p \in DOMAIN posts : /\ posts[p].alert = "pending"
                               /\ posts[p].response.status = 200
    /\ \E p \in DOMAIN posts : /\ posts[p].alert = "send error"
                               /\ posts[p].response.status = 200
    /\ \A p \in DOMAIN posts : InLog(posts[p].full)

(***************************************************************************)
(* Claims about the dashboard                                              *)
(***************************************************************************)
\* The sort state click i found: that of the mount before the first click.
sortBefore(i) ==
    IF i = 1 THEN [sortKey |-> Null, sortDir |-> Null]
    ELSE [sortKey |-> sortTrace[i - 1].sortKey,
          sortDir |-> sortTrace[i - 1].sortDir]

\* Clicks i, i+1, i+2 are on one column and click i found the table unsorted.
sameColumnThrice(i) ==
    /\ i + 2 <= Len(sortTrace)
    /\ sortBefore(i).sortKey = Null
    /\ sortTrace[i + 1].clicked = sortTrace[i].clicked
    /\ sortTrace[i + 2].clicked = sortTrace[i].clicked

\* C26: from unsorted, three clicks on one column sort it ascending, then
\* descending, then leave the table unsorted; a click on a column other
\* than the sorted one sorts by that column ascending; and sortKey is null
\* exactly when sortDir is null.
C26_SortCycle ==
    /\ (sortKey = Null) <=> (sortDir = Null)
    /\ \A i \in 1..Len(sortTrace) :
        /\ sortBefore(i).sortKey # NotNull(sortTrace[i].clicked) =>
              /\ sortTrace[i].sortKey = NotNull(sortTrace[i].clicked)
              /\ sortTrace[i].sortDir = NotNull("asc")
        /\ sameColumnThrice(i) =>
              /\ sortTrace[i].sortKey = NotNull(sortTrace[i].clicked)
              /\ sortTrace[i].sortDir = NotNull("asc")
              /\ sortTrace[i + 1].sortKey = NotNull(sortTrace[i].clicked)
              /\ sortTrace[i + 1].sortDir = NotNull("desc")
              /\ sortTrace[i + 2].sortKey = Null
              /\ sortTrace[i + 2].sortDir = Null

\* Three clicks on one column from unsorted, then a click on another column.
C26_Witness ==
    /\ Len(sortTrace) = 4
    /\ sameColumnThrice(1)
    /\ sortTrace[4].clicked # sortTrace[1].clicked
    /\ sortKey = NotNull(sortTrace[4].clicked)

(***************************************************************************)
(* Claims about writeCpfrValues                                            *)
(***************************************************************************)
\* The number a run of letters denotes when A..Z are the digits 1..26.
RECURSIVE lettersValue(_)
lettersValue(name) ==
    IF name = <<>> THEN 0
    ELSE 26 * lettersValue(SubSeq(name, 1, Len(name) - 1))
         + (CHOOSE d \in 1..26 : UpperChars[d] = name[Len(name)])

\* The letters of the i-th range built: what stands between "<tab>!" and
\* the digits of the row.
lettersOfRange(i) ==
    SubSeq(writeData[i].range, Len(WriteTab) + 2,
           Len(writeData[i].range) - Len(numberToString(updates[i].row)))

\* The names the claim lists.
NamedColumns ==
    {<<0, <<"A">>>>, <<25, <<"Z">>>>, <<26, <<"A", "A">>>>,
     <<51, <<"A", "Z">>>>, <<52, <<"B", "A">>>>, <<701, <<"Z", "Z">>>>,
     <<702, <<"A", "A", "A">>>>}

\* The i-th range is <tab>!<letters><row>, its letters the bijective
\* base-26 name of the column of the i-th update.
rangeIsRight(i) ==
    /\ writeData[i].range =
          WriteTab \o <<"!">> \o lettersOfRange(i)
                   \o numberToString(updates[i].row)
    /\ lettersOfRange(i) # <<>>
    /\ \A k \in 1..Len(lettersOfRange(i)) :
          \E d \in 1..26 : UpperChars[d] = lettersOfRange(i)[k]
    /\ lettersValue(lettersOfRange(i)) = updates[i].col + 1
    /\ \A pair \in NamedColumns :
          updates[i].col = pair[1] => lettersOfRange(i) = pair[2]

\* C27: the conversion loop of every update ends, the letters it yields are
\* the bijective base-26 name of the column index (0 -> A, 25 -> Z,
\* 26 -> AA, 51 -> AZ, 52 -> BA, 701 -> ZZ, 702 -> AAA), updates of distinct
\* columns get distinct letters, and the range is <tab>!<letters><row> with
\* the row as given.
C27_ColumnLetters ==
    /\ [](/\ \A i \in 1..Len(writeData) : rangeIsRight(i)
          /\ \A i, j \in 1..Len(writeData) :
                updates[i].col # updates[j].col =>
                    lettersOfRange(i) # lettersOfRange(j))
    /\ <>(writePc = "sent")

\* A batch sent with the ranges of columns 702 and 25, rows 15 and 2.
C27_Witness ==
    /\ writePc = "sent"
    /\ Len(writeData) = 2
    /\ updates[1].col = 702 /\ updates[1].row = 15
    /\ updates[2].col = 25 /\ updates[2].row = 2
    /\ writeData[1].range = <<"C", "P", "F", "R", "!", "A", "A", "A", "1", "5">>
    /\ writeData[2].range = <<"C", "P", "F", "R", "!", "Z", "2">>

(***************************************************************************)
(* Claims about the fallback weekly distribution                           *)
(***************************************************************************)
\* Sum of a sequence of integers.
RECURSIVE sumOf(_)
sumOf(arr) ==
    IF arr = <<>> THEN 0
    ELSE sumOf(SubSeq(arr, 1, Len(arr) - 1)) + arr[Len(arr)]

\* C28: distributeWeeksSeeded returns exactly `weeks` values, none
\* negative, whose sum is total, whatever the generator drew; so do the
\* calls buildFallbackSkus makes with WEEKS weeks.
C28_WeeksConserveTotal ==
    distPc = "returned" =>
        /\ Len(distArr) = distArgs.weeks
        /\ \A i \in 1..Len(distArr) : distArr[i] >= 0
        /\ sumOf(distArr) = distArgs.total

\* The Charger SKU's front-loaded call returned WEEKS values, the early
\* weeks clamped nowhere and the last one taking the rest.
C28_Witness ==
    /\ distPc = "returned"
    /\ distArgs = [total |-> 80136, weeks |-> WEEKS, opts |-> "frontLoad"]
    /\ distPlan = "high"
    /\ Len(distArr) = WEEKS
    /\ distArr[1] > distArr[WEEKS - 1]
    /\ sumOf(distArr) = 80136

(***************************************************************************)
(* Claims about the dashboard's accept controls                            *)
(***************************************************************************)
\* The handleAccept calls whose POST is pending.
PendingAccepts == {i \in DOMAIN acceptCalls : acceptCalls[i].state = "pending"}

\* C29: at most one POST /api/accept of the dashboard is pending at a time,
\* and accepting is false once every request has completed.
C29_OneAcceptInFlight ==
    /\ Cardinality(PendingAccepts) <= 1
    /\ (PendingAccepts = {} => ~accepting)

(***************************************************************************)
(* Claims about the column map                                             *)
(***************************************************************************)
\* The lower-cased aliases of each field.
LowerAliases ==
    [n \in 1..Len(KNOWN_HEADERS) |->
        {toLowerCase(KNOWN_HEADERS[n].aliases[a]) :
            a \in 1..Len(KNOWN_HEADERS[n].aliases)}]

\* No alias of one field reads, case-insensitively, as an alias of another.
NoSharedAlias ==
    \A m, n \in 1..Len(KNOWN_HEADERS) :
        m # n => LowerAliases[m] \cap LowerAliases[n] = {}

\* C30: every index of the column map is a position of the header row
\* (0 <= index < length), two field keys never share an index, and no alias
\* of one field reads, case-insensitively, as an alias of another.
C30_ColumnMapInjective ==
    /\ NoSharedAlias
    /\ mapperPc = "returned" =>
          /\ \A key \in DOMAIN discovered.columnMap :
                /\ discovered.columnMap[key] >= 0
                /\ discovered.columnMap[key] < Len(headerRow)
          /\ \A key, other \in DOMAIN discovered.columnMap :
                key # other =>
                    discovered.columnMap[key] # discovered.columnMap[other]

\* Two fields mapped from a row that reads "cust", "SKU" and " sku ": the
\* SKU field to the first of its two cells, the customer to its own.
C30_Witness ==
    /\ mapperPc = "returned"
    /\ headerRow = << <<"C", "u", "s", "t">>, <<"S", "K", "U">>,
                      <<" ", "s", "k", "u", " ">> >>
    /\ DOMAIN discovered.columnMap = {"ANKER_SKU", "CUSTOMER"}
    /\ discovered.columnMap["CUSTOMER"] = 0
    /\ discovered.columnMap["ANKER_SKU"] = 1

====
